---------------------------- MODULE Spec2Model ----------------------------
(***************************************************************************)
(* The agentic control loop of task/agents/base_agent.py                   *)
(* (BaseAgent.handle_request and its helpers): one request resolved by     *)
(* rounds of "stream the model's answer, rebuild its tool calls, run them  *)
(* concurrently, fold the results into the state, ask again".              *)
(*                                                                         *)
(* Two further specifications cover the proxy for another agent in         *)
(* task/tools/deployment/base_agent_tool.py: PropagatorSpec applies        *)
(* BaseAgentTool._prepare_messages to bounded outer conversations, and     *)
(* MirrorSpec runs one call of BaseAgentTool._execute against the stages   *)
(* the callee reports.  SiblingsSpec runs two such calls concurrently, as   *)
(* the fan-out of one round does, and RequestsSpec two requests served by  *)
(* one CalculationsApplication (calculations_app.py).                      *)
(*                                                                         *)
(* Texts (contents, argument payloads, exception messages) are sequences   *)
(* of tokens; concatenation of texts is \o.  Tool-call ids are the         *)
(* positive integers the model hands out, 0 stands for "no id" (None).     *)
(***************************************************************************)
EXTENDS Integers, Sequences, FiniteSets, TLC

\* ------------------------------------------------------------------ bounds
\* tool-call deltas and content fragments the model may stream in one resolution
MaxChunks == 2

\* ----------------------------------------------------------- vocabulary
TOOL_CALL_HISTORY_KEY == "tool_call_history"

\* The registry handed to the agent (calculations_app.py builds it this way):
\* a plain tool and a proxy for another agent.
\* a capability name the model may hallucinate
UnknownTools == {"unregistered"}
PlainTools == {"simple_calculator"}
AgentTools == {"web_search_agent"}
tools == PlainTools \cup AgentTools
ToolNames == tools \cup UnknownTools
\* BaseAgent._tools_dict: the registered tools by name
tools_dict == {name \in ToolNames : name \in tools}

\* The tools argument of BaseAgent.__init__: the registry above, and the lists
\* a misconfigured application could pass: an empty one and ones holding None.
NoTool == "None"
RegisteredTools == <<"simple_calculator", "web_search_agent">>
ToolLists == {RegisteredTools, <<>>, <<NoTool>>, <<"simple_calculator", NoTool>>}

\* BaseAgent.__init__ checks nothing; {tool.name: tool for tool in tools} raises
\* AttributeError when an entry is None
Constructs(tool_list) == \A k \in 1..Len(tool_list) : tool_list[k] # NoTool

\* (mutation) the list is not looked at
NoToolsNeverChecked(tool_list) == FALSE

\* if not self.tools
NoToolsAvailable(tool_list) == tool_list = <<>>

\* valid_tools = [tool for tool in self.tools if tool is not None]
valid_tools(tool_list) == SelectSeq(tool_list, LAMBDA t : t # NoTool)

\* positions of the streamed tool-call deltas
Indexes == {0, 1}
\* argument fragments; "{" followed by "}" is the only text over them that is JSON
Fragments == {<<"{">>, <<"}">>}
ContentFragments == {<<"x">>}

NoStage == 0

\* ------------------------------------------------------------------ state
VARIABLES
    pc,                  \* where the innermost handle_request frame is
    round,               \* model invocations so far = depth of the recursion
    chunks,              \* chunks consumed so far in this resolution
    chunk,               \* the chunk the stream loop consumed last in this round
    next_id,             \* next tool-call id the model will assign
    tool_call_index_map, \* this round's reconstruction, in key insertion order
    content,             \* this round's accumulated content
    delivered,           \* per index, every argument fragment streamed this round
    since_open,          \* per index, the fragments streamed since its last opening
    state,               \* BaseAgent.state
    assistant_message,   \* the assistant turn of the round being resolved / returned
    tasks,               \* the fan-out: one record per tool call of the round
    stages,              \* every Stage created on the choice, in creation order
    choice_content,      \* what was forwarded to the choice
    choice_state,        \* <<>> or <<state>>: what choice.set_state recorded
    set_state_calls,     \* calls of choice.set_state, effective or not
    model_calls,         \* per model invocation, the tool-call history it was sent
    error,               \* the exception handle_request raised to its caller, or "none"
    stage_config,        \* per registered tool, its progress-reporting policy
    agent_tools          \* BaseAgent.tools, as handed to __init__

\* BaseAgentTool._prepare_messages, applied to one call of the proxy
VARIABLES
    ppc,                 \* "idle", "called" or "prepared"
    outer,               \* tool_call_params.messages: the outer conversation
    call_arguments,      \* json.loads(tool_call.function.arguments)
    outbound             \* the message list _prepare_messages returned

\* BaseAgentTool._execute, one call of the proxy
VARIABLES
    epc,                 \* "idle", "start", "streaming", "returned" or "raised"
    own_stage,           \* tool_call_params.stage, NoStage if the call has none
    source,              \* per nested stage index, what the callee last reported
    stages_map,          \* per nested stage index, the stage that mirrors it
    callee_content,      \* content accumulated from the callee's stream
    callee_chunks        \* chunks of the callee's stream consumed so far

\* two sibling calls of the proxy, tasks of one asyncio.gather
VARIABLES
    siblings              \* per call: its position and the locals of its frames

\* CalculationsApplication and the requests it serves
VARIABLES
    application,         \* the attributes of the application object
    requests,            \* per request: where chat_completion is, and its locals
    agents               \* every agent constructed so far, in construction order

\* the attachments of a call of the proxy
VARIABLES
    emitted,             \* the attachments the callee has emitted, in order
    choice_attachments,  \* the attachments of tool_call_params.choice
    custom_content       \* custom_content.attachments, a local of _execute

\* the registry of WebSearchApplication and the delegations between the agents
VARIABLES
    registry,            \* the tools listed, BaseAgent._tools_dict and a dispatch
    chain                \* the agents of a delegation chain, outermost first

agent_vars == <<pc, round, chunks, chunk, next_id, tool_call_index_map, content,
                delivered, since_open, state, assistant_message, tasks,
                choice_content, choice_state, set_state_calls, model_calls, error,
                stage_config, agent_tools>>
propagator_vars == <<ppc, outer, call_arguments, outbound>>
mirror_vars == <<epc, own_stage, source, stages_map, callee_content, callee_chunks>>
sibling_vars == <<siblings>>
application_vars == <<application, requests, agents>>
attachment_vars == <<emitted, choice_attachments, custom_content>>
mesh_vars == <<registry, chain>>

vars == <<pc, round, chunks, chunk, next_id, tool_call_index_map, content, delivered,
          since_open, state, assistant_message, tasks, stages, choice_content,
          choice_state, set_state_calls, model_calls, error, stage_config,
          agent_tools, propagator_vars, mirror_vars, sibling_vars,
          application_vars, attachment_vars, mesh_vars>>

\* ---------------------------------------------------------------- helpers
Contains(text, token) == \E i \in 1..Len(text) : text[i] = token

\* json.loads on an arguments text: over the fragment alphabet only "{}" parses
json_loads_ok(arguments) == arguments = <<"{", "}">>

NoMessage == [role |-> "none", content |-> <<>>, tool_calls |-> <<>>,
              name |-> "", tool_call_id |-> 0, state |-> <<>>]

\* (mutation) the assistant turn is built without the accumulated content
AssistantMessageWithoutContent(text, calls) ==
    [role |-> "assistant", content |-> <<>>, tool_calls |-> calls,
     name |-> "", tool_call_id |-> 0, state |-> <<>>]

\* Message(role=ASSISTANT, content, custom_content, tool_calls)
AssistantMessage(text, calls) ==
    [role |-> "assistant", content |-> text, tool_calls |-> calls,
     name |-> "", tool_call_id |-> 0, state |-> <<>>]

\* Message(role=TOOL, name, tool_call_id, content[, custom_content.state])
ToolMessage(nm, id, text, nested) ==
    [role |-> "tool", content |-> text, tool_calls |-> <<>>,
     name |-> nm, tool_call_id |-> id, state |-> nested]

\* ------------------------------------------------- the model's event stream
\* A tool-call delta: id = 0 is an argument continuation.  An id-bearing delta
\* carries the function name and its first arguments text (possibly empty); a
\* continuation carries a fragment, or no function part at all.
Openers(id) ==
    [index : Indexes, id : {id}, name : ToolNames, function : {TRUE},
     arguments : {<<>>, <<"{", "}">>}]
Continuations ==
    [index : Indexes, id : {0}, name : {""}, function : {TRUE}, arguments : Fragments]
      \cup
    [index : Indexes, id : {0}, name : {""}, function : {FALSE}, arguments : {<<>>}]
Deltas(id) == Openers(id) \cup Continuations

\* One chunk: a content fragment, or a list of tool-call deltas.
Chunks(id) ==
    [content : ContentFragments, tool_calls : {<<>>}]
      \cup
    [content : {<<>>}, tool_calls : {<<d>> : d \in Deltas(id)}]

\* ------------------------------------------- Streaming Response Reconstructor
HasIndex(map, idx) == \E k \in 1..Len(map) : map[k].index = idx

ToolCallOf(d) == [index |-> d.index, id |-> d.id, name |-> d.name,
                  arguments |-> d.arguments]

\* (mutation) a new index is put in front of the indexes opened before
OpenDeltaInFront(map, d) ==
    IF HasIndex(map, d.index)
    THEN [k \in 1..Len(map) |->
            IF map[k].index = d.index THEN ToolCallOf(d) ELSE map[k]]
    ELSE <<ToolCallOf(d)>> \o map

\* tool_call_index_map[tool_call_delta.index] = tool_call_delta
\* (a dict keeps the position of a key that is assigned again)
OpenDelta(map, d) ==
    IF HasIndex(map, d.index)
    THEN [k \in 1..Len(map) |->
            IF map[k].index = d.index THEN ToolCallOf(d) ELSE map[k]]
    ELSE Append(map, ToolCallOf(d))

\* (mutation) the fragment is put in front of the accumulated text
ContinueDeltaPrepend(map, d) ==
    [k \in 1..Len(map) |->
        IF map[k].index = d.index /\ d.function
        THEN [map[k] EXCEPT !.arguments = d.arguments \o @]
        ELSE map[k]]

\* tool_call.function.arguments += tool_call_delta.function.arguments or ''
ContinueDelta(map, d) ==
    [k \in 1..Len(map) |->
        IF map[k].index = d.index /\ d.function
        THEN [map[k] EXCEPT !.arguments = @ \o d.arguments]
        ELSE map[k]]

\* (mutation) a lookup that tolerates a missing index, as dict.get would
DeltaNeverRaises(map, d) == FALSE

\* the lookup tool_call_index_map[tool_call_delta.index] raises KeyError
DeltaRaises(map, d) == d.id = 0 /\ ~HasIndex(map, d.index)

ApplyDelta(map, d) == IF d.id # 0 THEN OpenDelta(map, d) ELSE ContinueDelta(map, d)

\* for tool_call_delta in delta.tool_calls: the map after the deltas that were
\* processed, and whether one of them raised (the later ones are not processed)
RECURSIVE ApplyDeltas(_, _)
ApplyDeltas(map, ds) ==
    IF ds = <<>> THEN [map |-> map, raised |-> FALSE]
    ELSE IF DeltaRaises(map, Head(ds)) THEN [map |-> map, raised |-> TRUE]
    ELSE ApplyDeltas(ApplyDelta(map, Head(ds)), Tail(ds))

\* bookkeeping of what the stream delivered, per index
RECURSIVE Delivered(_, _)
Delivered(del, ds) ==
    IF ds = <<>> THEN del
    ELSE Delivered([del EXCEPT ![Head(ds).index] = @ \o Head(ds).arguments], Tail(ds))

RECURSIVE SinceOpen(_, _)
SinceOpen(so, ds) ==
    IF ds = <<>> THEN so
    ELSE SinceOpen([so EXCEPT ![Head(ds).index] =
                        IF Head(ds).id # 0 THEN Head(ds).arguments
                        ELSE @ \o Head(ds).arguments], Tail(ds))

NoFragments == [i \in Indexes |-> <<>>]

NoChunk == [content |-> <<>>, tool_calls |-> <<>>]

\* ------------------------------------------------------------- the choice
\* (mutation) only the tool-call history is set, the sub-state map is left out
SetStateHistoryOnly(cs, st) ==
    IF cs = <<>> THEN <<(TOOL_CALL_HISTORY_KEY :> st[TOOL_CALL_HISTORY_KEY])>> ELSE cs

\* choice.set_state: the SDK accepts the state once and raises on a second call;
\* both call sites swallow that exception.
SetState(cs, st) == IF cs = <<>> THEN <<st>> ELSE cs

\* (mutation) the except clause re-raises without setting the state
RaiseWithoutState(e) ==
    /\ pc' = "failed"
    /\ error' = e
    /\ UNCHANGED <<choice_state, set_state_calls>>

\* str() of the exception choice.set_state raises when the state was already set
SetStateTwiceText == "Exception: Trying to set state twice"

\* (mutation) the exception of the second choice.set_state leaves the except
\* clause in place of the exception being handled
ReraiseSetStateError(e, cs) == IF cs = <<>> THEN e ELSE SetStateTwiceText

\* The except clause of one frame, entered with exception e while the choice holds
\* cs: whatever choice.set_state raises is swallowed and the bare raise re-raises e.
Reraise(e, cs) == e

\* The exception unwinds `frames` frames of handle_request, each one's except
\* clause setting the state and re-raising: what the caller receives and what
\* the choice holds then.
RECURSIVE Unwind(_, _, _, _)
Unwind(e, cs, st, frames) ==
    IF frames = 0 THEN [error |-> e, choice_state |-> cs]
    ELSE Unwind(Reraise(e, cs), SetState(cs, st), st, frames - 1)

\* The except clause of every handle_request frame on the stack (one per round)
\* sets the state and re-raises.
RaiseFromHandleRequest(e) ==
    /\ pc' = "failed"
    /\ error' = Unwind(e, choice_state, state, round).error
    /\ choice_state' = Unwind(e, choice_state, state, round).choice_state
    /\ set_state_calls' = set_state_calls + round

\* --------------------------------------------------------------- the stages
\* StageProcessor.open_stage(choice, name): a new Stage on the choice, opened
open_stage(stgs, nm, owner) ==
    Append(stgs, [name |-> nm, owner |-> owner, status |-> "open",
                  content |-> <<>>, closes |-> 0])

\* stage.append_content(text)
append_content(stgs, k, text) == [stgs EXCEPT ![k].content = @ \o text]

\* (mutation) every call closes the stage once more
close_stage_every_time(stgs, k) ==
    [stgs EXCEPT ![k].status = "closed", ![k].closes = @ + 1]

\* StageProcessor.close_stage_safely(stage): closes an open stage, and is a no-op
\* on a closed one
close_stage_safely(stgs, k) ==
    IF stgs[k].status = "open"
    THEN [stgs EXCEPT ![k].status = "closed", ![k].closes = @ + 1]
    ELSE stgs

\* ------------------------------------------------------------- exceptions
\* str() of the exceptions that can end a tool call
KeyErrorText(key) == <<key>>
NoneTypeErrorText == <<"'NoneType' object has no attribute 'append_content'">>
JSONDecodeErrorText == <<"Expecting value">>
DictExtendErrorText == <<"'dict' object has no attribute 'extend'">>
ExecutionErrorTexts == {<<"upstream call failed">>}

\* ------------------------------------------------- BaseAgent._process_tool_call
Policies == [create_stage : BOOLEAN, show_request_in_stage : BOOLEAN,
             show_response_in_stage : BOOLEAN]

Policy(create, request, response) ==
    [create_stage |-> create, show_request_in_stage |-> request,
     show_response_in_stage |-> response]

\* tool.stage_config of the registered tools: the registries explored.  Between
\* them the two tools meet every behaviour of the three flags: no stage, a stage
\* with and without the request and the response, a request shown without a stage.
StageConfigs ==
    { [t \in tools |-> Policy(TRUE, TRUE, TRUE)],
      [t \in tools |-> Policy(FALSE, FALSE, FALSE)],
      [t \in tools |-> IF t \in AgentTools THEN Policy(TRUE, FALSE, FALSE)
                                            ELSE Policy(FALSE, TRUE, FALSE)],
      [t \in tools |-> IF t \in AgentTools THEN Policy(TRUE, FALSE, TRUE)
                                            ELSE Policy(TRUE, TRUE, FALSE)] }

\* Up to "await tool.execute(...)": resolve the tool, open its stage, show the
\* request.  exc is the text of the exception raised, <<>> if none, and `at` the
\* statement that raised it.
StartCall(stgs, tc, config) ==
    IF tc.name \notin tools_dict
    THEN [stages |-> stgs, stage |-> NoStage, exc |-> KeyErrorText(tc.name),
          at |-> "lookup"]
    ELSE LET cfg    == config[tc.name]
             opened == IF cfg.create_stage THEN open_stage(stgs, tc.name, tc.id)
                       ELSE stgs
             stage  == IF cfg.create_stage THEN Len(opened) ELSE NoStage
         IN  IF ~cfg.show_request_in_stage
             THEN [stages |-> opened, stage |-> stage, exc |-> <<>>, at |-> ""]
             ELSE IF stage = NoStage
             THEN [stages |-> opened, stage |-> stage, exc |-> NoneTypeErrorText,
                   at |-> "show_request"]
             ELSE LET titled == append_content(opened, stage,
                                               <<"## Request arguments: ">>)
                  IN  IF ~json_loads_ok(tc.arguments)
                      THEN [stages |-> titled, stage |-> stage,
                            exc |-> JSONDecodeErrorText, at |-> "show_request"]
                      ELSE [stages |-> append_content(titled, stage, tc.arguments),
                            stage |-> stage, exc |-> <<>>, at |-> ""]

\* a turn of the callee's own tool-call history, as the callee persisted it
NestedTurn(id) ==
    [role |-> "tool", content |-> <<"nested result">>, tool_calls |-> <<>>,
     name |-> "nested_tool", tool_call_id |-> id, state |-> <<>>]

\* BaseAgentTool._execute: what the call of the other agent can come to.  A reply
\* is the callee's content and the tool-call history in its state (<<>> when the
\* reply has no state, or a state without history); a failure is an exception text.
AgentReplies(tc) == [content : {<<"answer">>}, nested : {<<>>, <<NestedTurn(tc.id)>>}]

\* (mutation) the call goes ahead without parsing the arguments
AgentExecuteWithoutParsing(tc) ==
    {[failed |-> FALSE, exc |-> <<>>, content |-> r.content, nested |-> r.nested] :
        r \in AgentReplies(tc)}

AgentExecute(tc) ==
    IF ~json_loads_ok(tc.arguments)
    THEN {[failed |-> TRUE, exc |-> JSONDecodeErrorText, content |-> <<>>,
           nested |-> <<>>]}
    ELSE {[failed |-> FALSE, exc |-> <<>>, content |-> r.content, nested |-> r.nested] :
            r \in AgentReplies(tc)}
           \cup
         {[failed |-> TRUE, exc |-> e, content |-> <<>>, nested |-> <<>>] :
            e \in ExecutionErrorTexts}

\* a local tool's _execute: the arguments are parsed, which may fail; then a
\* result text, or a failure
PlainExecute(tc) ==
    IF ~json_loads_ok(tc.arguments)
    THEN {[failed |-> TRUE, exc |-> JSONDecodeErrorText, content |-> <<>>,
           nested |-> <<>>]}
    ELSE {[failed |-> FALSE, exc |-> <<>>, content |-> <<"result">>, nested |-> <<>>]}
           \cup
         {[failed |-> TRUE, exc |-> e, content |-> <<>>, nested |-> <<>>] :
             e \in ExecutionErrorTexts}

\* BaseTool.execute around _execute: the result as a tool message; a failure is
\* reported as an error message naming the capability and the failure, or is raised.
Execute(tc) ==
    LET runs == IF tc.name \in AgentTools THEN AgentExecute(tc) ELSE PlainExecute(tc)
    IN  {[raised |-> FALSE, exc |-> <<>>, streamed |-> r.content,
          message |-> ToolMessage(tc.name, tc.id, r.content, r.nested)] :
            r \in {x \in runs : ~x.failed}}
          \cup
        {[raised |-> FALSE, exc |-> <<>>, streamed |-> <<>>,
          message |-> ToolMessage(tc.name, tc.id,
                                  <<"ERROR during tool call execution", tc.name>> \o r.exc,
                                  <<>>)] :
            r \in {x \in runs : x.failed}}
          \cup
        {[raised |-> TRUE, exc |-> r.exc, streamed |-> <<>>, message |-> NoMessage] :
            r \in {x \in runs : x.failed}}

\* (mutation) the callee's whole state is stored, not its tool-call history alone
GatherToolHistoryWholeState(st, tool_name, message) ==
    IF message.state = <<>>
    THEN [state |-> st, exc |-> <<>>]
    ELSE IF tool_name \in DOMAIN st
    THEN [state |-> st, exc |-> DictExtendErrorText]
    ELSE [state |-> st @@ (tool_name :> [tool_call_history |-> message.state,
                                         stages |-> <<>>]),
          exc |-> <<>>]

\* (mutation) an entry is recorded for every result, with or without a history
GatherToolHistoryAlwaysRecording(st, tool_name, message) ==
    IF tool_name \in DOMAIN st
    THEN [state |-> st, exc |-> IF message.state = <<>> THEN <<>>
                                ELSE DictExtendErrorText]
    ELSE [state |-> st @@ (tool_name :> [tool_call_history |-> message.state]),
          exc |-> <<>>]

\* BaseAgent._gather_tool_history_to_state: the state afterwards, and the
\* exception text if it raised (the entry under tool_name is a dict: no extend)
GatherToolHistoryToState(st, tool_name, message) ==
    IF message.state = <<>>
    THEN [state |-> st, exc |-> <<>>]
    ELSE IF tool_name \in DOMAIN st
    THEN [state |-> st, exc |-> DictExtendErrorText]
    ELSE [state |-> st @@ (tool_name :> [tool_call_history |-> message.state]),
          exc |-> <<>>]

\* After "await tool.execute(...)" returned `message`: record the sub-state, show
\* the response, close the stage, return the message.
FinishCall(st, stgs, stage, tc, cfg, message) ==
    LET g == GatherToolHistoryToState(st, tc.name, message)
        shown == IF stage # NoStage /\ cfg.show_response_in_stage
                 THEN append_content(stgs, stage, <<"## Response: ">> \o message.content)
                 ELSE stgs
        closed == IF stage # NoStage THEN close_stage_safely(shown, stage) ELSE shown
    IN  IF g.exc # <<>>
        THEN [state |-> g.state, stages |-> stgs, exc |-> g.exc]
        ELSE [state |-> g.state, stages |-> closed, exc |-> <<>>]

\* ------------------------------------------------------- the fan-out's join
\* (mutation) gather without return_exceptions: the first exception ends the wait
GatherReadyFailFast(tsk) ==
    \/ \A i \in 1..Len(tsk) : tsk[i].pc \in {"returned", "raised"}
    \/ \E i \in 1..Len(tsk) : tsk[i].pc = "raised"

\* (mutation) the wait is over only when every task has returned a result
GatherReadyWhenNoneRaised(tsk) == \A i \in 1..Len(tsk) : tsk[i].pc = "returned"

\* await asyncio.gather(*tasks, return_exceptions=True) returns when every task
\* has returned or raised
GatherReady(tsk) == \A i \in 1..Len(tsk) : tsk[i].pc \in {"returned", "raised"}

\* (mutation) the error turn does not carry the id of the call
ErrorMessageWithoutId(tc, exc) == ToolMessage(tc.name, 0, <<"Error: ">> \o exc, <<>>)

\* (mutation) the error turn does not say what failed
ErrorMessageWithoutFailure(tc, exc) == ToolMessage(tc.name, tc.id, <<"Error: ">>, <<>>)

\* (mutation) the error turn does not carry the name of the call
ErrorMessageWithoutName(tc, exc) == ToolMessage("", tc.id, <<"Error: ">> \o exc, <<>>)

\* Message(role=TOOL, name=..., tool_call_id=..., content=f"Error: {str(result)}")
ErrorMessage(tc, exc) == ToolMessage(tc.name, tc.id, <<"Error: ">> \o exc, <<>>)

\* (mutation) the calls that raised are left out of the results
ValidToolMessagesDropFailed(calls, tsk) ==
    LET ok == {i \in 1..Len(calls) : tsk[i].pc # "raised"}
    IN  [k \in 1..Cardinality(ok) |->
            tsk[CHOOSE i \in ok : Cardinality({j \in ok : j < i}) = k - 1].result]

\* valid_tool_messages: one per tool call, in the order of the tool calls
ValidToolMessages(calls, tsk) ==
    [i \in 1..Len(calls) |->
        IF tsk[i].pc = "raised" THEN ErrorMessage(calls[i], tsk[i].exc)
        ELSE tsk[i].result]

\* (mutation) the assistant turn is not appended, only the results are
AppendRoundResultsOnly(st, assistant, messages) ==
    [st EXCEPT ![TOOL_CALL_HISTORY_KEY] = @ \o messages]

\* (mutation) the history is replaced by the round
AppendRoundReplacing(st, assistant, messages) ==
    [st EXCEPT ![TOOL_CALL_HISTORY_KEY] = <<assistant>> \o messages]

\* self.state[TOOL_CALL_HISTORY_KEY].append(assistant_message); .extend(messages)
AppendRound(st, assistant, messages) ==
    [st EXCEPT ![TOOL_CALL_HISTORY_KEY] = (@ \o <<assistant>>) \o messages]

\* ------------------------------------------------------ the message list
SystemMessage == [role |-> "system", content |-> <<"system_prompt">>,
                  tool_calls |-> <<>>, name |-> "", tool_call_id |-> 0, state |-> <<>>]
UserMessage == [role |-> "user", content |-> <<"question">>,
                tool_calls |-> <<>>, name |-> "", tool_call_id |-> 0, state |-> <<>>]
\* An earlier exchange of the outer conversation: the user's turn and the
\* assistant's answer, whose state holds the tool-call history of its resolution.
PriorUserMessage == [UserMessage EXCEPT !.content = <<"earlier question">>]
PriorToolCall == [index |-> 0, id |-> 1, name |-> "simple_calculator",
                  arguments |-> <<"{", "}">>]
PriorHistory == <<AssistantMessage(<<>>, <<PriorToolCall>>),
                  ToolMessage("simple_calculator", 1, <<"result">>, <<>>)>>
PriorAssistantMessage ==
    [AssistantMessage(<<"earlier answer">>, <<>>) EXCEPT !.state = PriorHistory]
\* request.messages: the outer conversation, ending with the new user turn
RequestMessages == <<PriorUserMessage, PriorAssistantMessage, UserMessage>>

RECURSIVE VisibleHistory(_, _)
\* the outer turns from position i on: an assistant turn that stored a tool-call
\* history is preceded by that history, and no turn keeps its state
VisibleHistory(messages, i) ==
    IF i > Len(messages) THEN <<>>
    ELSE LET m == messages[i]
             stripped == [m EXCEPT !.state = <<>>]
         IN  (IF m.role = "assistant" THEN m.state ELSE <<>>)
                \o <<stripped>> \o VisibleHistory(messages, i + 1)

\* unpack_messages(messages, state_history): the visible history followed by the
\* tool-call history of the resolution under way
unpack_messages(messages, history) == VisibleHistory(messages, 1) \o history

\* (mutation) the tool-call history of the resolution is left out
PrepareMessagesWithoutHistory(st) ==
    <<SystemMessage>> \o unpack_messages(RequestMessages, <<>>)

\* BaseAgent._prepare_messages
PrepareMessages(st) ==
    <<SystemMessage>> \o unpack_messages(RequestMessages, st[TOOL_CALL_HISTORY_KEY])

\* ------------------------------------------ BaseAgentTool._prepare_messages
\* self.name of the proxy, and the name of another capability of the caller
Callee == "web_search_agent"
Sibling == "content_management_agent"

\* an Attachment; "" stands for a field that is None
Attachment(url, reference_url, type, title, data) ==
    [url |-> url, reference_url |-> reference_url, type |-> type, title |-> title,
     data |-> data]
AttachmentUrl == Attachment("url_1", "", "text/plain", "", "")
AttachmentReference == Attachment("", "reference_1", "", "title_1", "")
AttachmentData == Attachment("", "", "image/png", "title_2", "data_2")

\* (mutation) reference_url is not used as the url
clean_attachment_url_only(att) ==
    [url |-> att.url, type |-> att.type, title |-> att.title]

\* _clean_attachment_for_api: url (or else reference_url), type and title
clean_attachment_for_api(att) ==
    [url |-> IF att.url # "" THEN att.url ELSE att.reference_url,
     type |-> att.type, title |-> att.title]

HasUrl(att_dict) == att_dict.url # ""

\* the attachment dicts kept: those that have a url after cleaning
CleanAttachments(attachments) ==
    SelectSeq([k \in 1..Len(attachments) |-> clean_attachment_for_api(attachments[k])],
              HasUrl)

\* a message of the outer conversation, of a stored history, or of the outbound list
Turn(role, text, calls, nm, id, attachments, st) ==
    [role |-> role, content |-> text, tool_calls |-> calls, name |-> nm,
     tool_call_id |-> id, attachments |-> attachments, state |-> st]

\* (mutation) the copy of the assistant turn keeps the caller's whole state
AssistantCopyKeepingState(message, agent_state) ==
    [message EXCEPT !.attachments = CleanAttachments(@)]

\* the deepcopy of the outer assistant turn: its state replaced by the callee's
\* sub-state, its attachments cleaned
AssistantCopy(message, agent_state) ==
    [message EXCEPT !.state = agent_state, !.attachments = CleanAttachments(@)]

\* the user turn right before position i, as a dict with cleaned attachments
PrecedingUser(messages, i) ==
    IF i > 1 /\ messages[i - 1].role = "user"
    THEN <<Turn("user", messages[i - 1].content, <<>>, "", 0,
                CleanAttachments(messages[i - 1].attachments), <<>>)>>
    ELSE <<>>

IsToolTurn(history_msg) == history_msg.role = "tool"

\* the tool turns of the stored history, as role, content and tool_call_id
NestedToolMessages(tool_call_history) ==
    LET tool_turns == SelectSeq(tool_call_history, IsToolTurn)
    IN  [k \in 1..Len(tool_turns) |->
            Turn("tool", tool_turns[k].content, <<>>, "", tool_turns[k].tool_call_id,
                 <<>>, <<>>)]

\* position i is an assistant turn whose state has a history for this agent
HasAgentState(messages, i, name) ==
    /\ messages[i].role = "assistant"
    /\ DOMAIN messages[i].state # {}
    /\ name \in DOMAIN messages[i].state
    /\ TOOL_CALL_HISTORY_KEY \in DOMAIN messages[i].state[name]

\* (mutation) the assistant turn is emitted before the turns that led to it
HistoryBlockAssistantFirst(messages, i, name) ==
    IF HasAgentState(messages, i, name)
    THEN LET agent_state == messages[i].state[name]
         IN  (<<AssistantCopy(messages[i], agent_state)>>
                \o PrecedingUser(messages, i))
                \o NestedToolMessages(agent_state[TOOL_CALL_HISTORY_KEY])
    ELSE <<>>

\* one iteration of the while loop: what position i adds to the list
HistoryBlock(messages, i, name) ==
    IF HasAgentState(messages, i, name)
    THEN LET agent_state == messages[i].state[name]
         IN  (PrecedingUser(messages, i)
                \o NestedToolMessages(agent_state[TOOL_CALL_HISTORY_KEY]))
                \o <<AssistantCopy(messages[i], agent_state)>>
    ELSE <<>>

RECURSIVE CollectHistory(_, _, _)
\* the while loop from position i on
CollectHistory(messages, i, name) ==
    IF i > Len(messages) THEN <<>>
    ELSE HistoryBlock(messages, i, name) \o CollectHistory(messages, i + 1, name)

\* the user turn with the prompt, carrying the cleaned attachments of the last
\* message when that message is a user turn
PromptMessage(messages, arguments) ==
    Turn("user", arguments.prompt, <<>>, "", 0,
         IF messages # <<>> /\ messages[Len(messages)].role = "user"
         THEN CleanAttachments(messages[Len(messages)].attachments)
         ELSE <<>>,
         <<>>)

\* (mutation) the history is propagated whatever the arguments say
prepare_messages_always_propagating(messages, arguments, name) ==
    Append(CollectHistory(messages, 1, name), PromptMessage(messages, arguments))

\* BaseAgentTool._prepare_messages; propagate_history is "true", "false" or
\* "absent" (arguments.get("propagate_history", False))
BaseAgentTool_prepare_messages(messages, arguments, name) ==
    Append(IF arguments.propagate_history = "true"
           THEN CollectHistory(messages, 1, name)
           ELSE <<>>,
           PromptMessage(messages, arguments))

\* ------------------------------------------------------------------- Init
\* no call of the proxy is under way
PropagatorIdle ==
    /\ ppc = "idle"
    /\ outer = <<>>
    /\ call_arguments = [prompt |-> <<>>, propagate_history |-> "absent"]
    /\ outbound = <<>>

MirrorIdle ==
    /\ epc = "idle"
    /\ own_stage = NoStage
    /\ source = <<>>
    /\ stages_map = <<>>
    /\ callee_content = <<>>
    /\ callee_chunks = 0

AttachmentsIdle ==
    /\ emitted = <<>>
    /\ choice_attachments = <<>>
    /\ custom_content = [attachments |-> <<>>]

NoRegistry == [pc |-> "idle", tools |-> <<>>, tools_dict |-> <<>>,
               tool_schemas |-> <<>>, called |-> 0, dispatched |-> 0]
MeshIdle ==
    /\ registry = NoRegistry
    /\ chain = <<>>

Calls == {1, 2}
NoCall == [pc |-> "idle", own_stage |-> NoStage, source |-> <<>>,
           stages_map |-> <<>>, content |-> <<>>, chunks |-> 0]
SiblingIdle == siblings = [c \in Calls |-> NoCall]

Requests == {1, 2}
NoAgent == 0
NoRequest == [pc |-> "idle", tools |-> <<>>, agent |-> NoAgent, rounds |-> 0,
              response |-> <<>>]
ApplicationIdle ==
    /\ application = [tools_initialized |-> FALSE,
                      python_code_interpreter_tool |-> NoTool]
    /\ requests = [r \in Requests |-> NoRequest]
    /\ agents = <<>>

\* BaseAgent.__init__: state = {TOOL_CALL_HISTORY_KEY: []}; nothing has run yet.
AgentInit ==
    /\ agent_tools \in ToolLists
    /\ pc = IF Constructs(agent_tools) THEN "start" ELSE "unconstructed"
    /\ round = 0
    /\ chunks = 0
    /\ chunk = NoChunk
    /\ next_id = 1
    /\ tool_call_index_map = <<>>
    /\ content = <<>>
    /\ delivered = NoFragments
    /\ since_open = NoFragments
    /\ state = (TOOL_CALL_HISTORY_KEY :> <<>>)
    /\ assistant_message = NoMessage
    /\ tasks = <<>>
    /\ choice_content = <<>>
    /\ choice_state = <<>>
    /\ set_state_calls = 0
    /\ model_calls = <<>>
    /\ error = IF Constructs(agent_tools) THEN "none" ELSE "AttributeError"
    /\ stage_config \in StageConfigs

Init ==
    /\ AgentInit
    /\ stages = <<>>
    /\ PropagatorIdle
    /\ MirrorIdle
    /\ SiblingIdle
    /\ ApplicationIdle
    /\ AttachmentsIdle
    /\ MeshIdle

\* ---------------------------------------------------------------- actions
\* A handle_request frame up to the model call: the tools are validated, the
\* choice opened, the model invoked on _prepare_messages(request.messages).
InvokeModel ==
    /\ round' = round + 1
    /\ model_calls' = Append(model_calls, PrepareMessages(state'))
    /\ chunk' = NoChunk
    /\ tool_call_index_map' = <<>>
    /\ content' = <<>>
    /\ delivered' = NoFragments
    /\ since_open' = NoFragments
    /\ tasks' = <<>>
    /\ pc' = "stream"

HandleRequest ==
    /\ pc = "start"
    /\ IF NoToolsAvailable(agent_tools) \/ valid_tools(agent_tools) = <<>>
       THEN \* raise ValueError(...), caught by the except clause of this frame
            /\ pc' = "failed"
            /\ error' = IF NoToolsAvailable(agent_tools)
                        THEN "ValueError: No tools available for the agent"
                        ELSE "ValueError: All tools are None or invalid"
            /\ choice_state' = SetState(choice_state, state)
            /\ set_state_calls' = set_state_calls + 1
            /\ UNCHANGED <<round, chunks, chunk, next_id, tool_call_index_map,
                           content, delivered, since_open, state,
                           assistant_message, tasks, stages, choice_content,
                           model_calls, stage_config, agent_tools,
                           propagator_vars, mirror_vars, sibling_vars,
                   application_vars, attachment_vars, mesh_vars>>
       ELSE /\ state' = state
            /\ InvokeModel
            /\ UNCHANGED <<chunks, next_id, assistant_message, stages,
                           choice_content, choice_state, set_state_calls, error,
                           stage_config, agent_tools, propagator_vars,
                           mirror_vars, sibling_vars,
                   application_vars, attachment_vars, mesh_vars>>

\* async for chunk in chunks: one chunk of the model's stream
ConsumeChunk ==
    /\ pc = "stream"
    /\ chunks < MaxChunks
    /\ \E c \in Chunks(next_id) :
         LET r == ApplyDeltas(tool_call_index_map, c.tool_calls)
             opens == {k \in 1..Len(c.tool_calls) : c.tool_calls[k].id # 0}
         IN  /\ chunk' = c
             /\ chunks' = chunks + 1
             /\ next_id' = IF opens = {} THEN next_id ELSE next_id + 1
             /\ choice_content' = choice_content \o c.content
             /\ content' = content \o c.content
             /\ tool_call_index_map' = r.map
             /\ delivered' = Delivered(delivered, c.tool_calls)
             /\ since_open' = SinceOpen(since_open, c.tool_calls)
             /\ IF r.raised
                THEN RaiseFromHandleRequest("KeyError")
                ELSE UNCHANGED <<pc, error, choice_state, set_state_calls>>
    /\ UNCHANGED <<round, state, assistant_message, tasks, stages, model_calls,
                   stage_config,
                   agent_tools, propagator_vars, mirror_vars, sibling_vars,
                   application_vars, attachment_vars, mesh_vars>>

\* The stream ends with tool calls: the assistant message is built and one
\* _process_tool_call coroutine per tool call is handed to asyncio.gather.
EndStreamWithToolCalls ==
    /\ pc = "stream"
    /\ tool_call_index_map # <<>>
    /\ assistant_message' = AssistantMessage(content, tool_call_index_map)
    /\ tasks' = [i \in 1..Len(tool_call_index_map) |->
                    [pc |-> "pending", at |-> "", stage |-> NoStage,
                     result |-> NoMessage, exc |-> <<>>]]
    /\ pc' = "fanout"
    /\ chunk' = NoChunk
    /\ UNCHANGED <<round, chunks, next_id, tool_call_index_map, content, delivered,
                   since_open, state, stages, choice_content, choice_state,
                   set_state_calls, model_calls, error, stage_config,
                   agent_tools, propagator_vars, mirror_vars, sibling_vars,
                   application_vars, attachment_vars, mesh_vars>>

\* The stream ends without tool calls: the state is set on the choice and the
\* assistant message returned through every frame.
EndStreamDone ==
    /\ pc = "stream"
    /\ tool_call_index_map = <<>>
    /\ assistant_message' = AssistantMessage(content, <<>>)
    /\ choice_state' = SetState(choice_state, state)
    /\ set_state_calls' = set_state_calls + 1
    /\ pc' = "done"
    /\ chunk' = NoChunk
    /\ UNCHANGED <<round, chunks, next_id, tool_call_index_map, content, delivered,
                   since_open, state, tasks, stages, choice_content, model_calls,
                   error, stage_config,
                   agent_tools, propagator_vars, mirror_vars, sibling_vars,
                   application_vars, attachment_vars, mesh_vars>>

\* Task i runs from its start to "await tool.execute(...)".  The event loop
\* starts the tasks of a gather in the order they were given.
ProcessToolCallStart(i) ==
    /\ pc = "fanout"
    /\ tasks[i].pc = "pending"
    /\ \A j \in 1..(i - 1) : tasks[j].pc # "pending"
    /\ LET r == StartCall(stages, assistant_message.tool_calls[i], stage_config)
       IN  /\ stages' = r.stages
           /\ tasks' = [tasks EXCEPT ![i].stage = r.stage,
                                     ![i].exc = r.exc,
                                     ![i].at = r.at,
                                     ![i].pc = IF r.exc = <<>> THEN "awaiting"
                                               ELSE "raised"]
    /\ UNCHANGED <<pc, round, chunks, chunk, next_id, tool_call_index_map, content,
                   delivered, since_open, state, assistant_message, choice_content,
                   choice_state, set_state_calls, model_calls, error, stage_config,
                   agent_tools, propagator_vars, mirror_vars, sibling_vars,
                   application_vars, attachment_vars, mesh_vars>>

\* tool.execute of task i completes, in any order among the awaiting tasks, and
\* the task runs to its end.
ProcessToolCallFinish(i) ==
    /\ pc = "fanout"
    /\ tasks[i].pc = "awaiting"
    /\ \E o \in Execute(assistant_message.tool_calls[i]) :
         LET tc == assistant_message.tool_calls[i]
             stage == tasks[i].stage
             live == IF stage # NoStage /\ tc.name \in AgentTools
                     THEN append_content(stages, stage, o.streamed)
                     ELSE stages
         IN  IF o.raised
             THEN /\ tasks' = [tasks EXCEPT ![i].pc = "raised", ![i].exc = o.exc,
                                            ![i].at = "execute"]
                  /\ stages' = live
                  /\ state' = state
             ELSE LET r == FinishCall(state, live, stage, tc, stage_config[tc.name],
                                       o.message)
                  IN  /\ state' = r.state
                      /\ stages' = r.stages
                      /\ tasks' = [tasks EXCEPT
                                     ![i].pc = IF r.exc = <<>> THEN "returned"
                                               ELSE "raised",
                                     ![i].exc = r.exc,
                                     ![i].at = IF r.exc = <<>> THEN "" ELSE "gather",
                                     ![i].result = IF r.exc = <<>> THEN o.message
                                                   ELSE NoMessage]
    /\ UNCHANGED <<pc, round, chunks, chunk, next_id, tool_call_index_map, content,
                   delivered, since_open, assistant_message, choice_content,
                   choice_state, set_state_calls, model_calls, error, stage_config,
                   agent_tools, propagator_vars, mirror_vars, sibling_vars,
                   application_vars, attachment_vars, mesh_vars>>

\* asyncio.gather returns once every task has returned or raised: the round is
\* appended to the history and handle_request calls itself.
Join ==
    /\ pc = "fanout"
    /\ GatherReady(tasks)
    /\ state' = AppendRound(state, assistant_message,
                            ValidToolMessages(assistant_message.tool_calls, tasks))
    /\ InvokeModel
    /\ UNCHANGED <<chunks, next_id, assistant_message, stages, choice_content,
                   choice_state, set_state_calls, error, stage_config,
                   agent_tools, propagator_vars, mirror_vars, sibling_vars,
                   application_vars, attachment_vars, mesh_vars>>

Next ==
    \/ HandleRequest
    \/ ConsumeChunk
    \/ EndStreamWithToolCalls
    \/ EndStreamDone
    \/ \E i \in 1..Len(tasks) : ProcessToolCallStart(i)
    \/ \E i \in 1..Len(tasks) : ProcessToolCallFinish(i)
    \/ Join

Spec == Init /\ [][Next]_vars

\* The event loop resumes a coroutine that is ready: a stream that has a next
\* chunk or has ended is read, a tool execution that can finish does, a gather
\* whose tasks are over returns.
FairInit ==
    /\ Init
    /\ stage_config = [t \in tools |-> Policy(TRUE, TRUE, TRUE)]

FairSpec == FairInit /\ [][Next]_vars /\ WF_vars(Next)

\* ------------------------------ the propagator, on bounded outer conversations
\* earlier user/assistant exchanges of the outer conversation, before its last
\* user turn
MaxPairs == 2

Prompt == <<"prompt">>
Ordinals == <<"1st", "2nd", "3rd", "4th">>

\* the caller's own tool-call history persisted with its p-th assistant turn
OwnHistory(p) ==
    <<Turn("tool", <<"own result">>, <<>>, "simple_calculator", 100 + p, <<>>, <<>>)>>

\* the callee's tool-call history stored with the caller's p-th assistant turn:
\* the callee's assistant turn with two tool calls, and their results
NestedHistory(nm, p) ==
    <<Turn("assistant", <<>>,
           <<[id |-> 10 * p + 1, name |-> "nested_tool"],
             [id |-> 10 * p + 2, name |-> "nested_tool"]>>, "", 0, <<>>, <<>>),
      Turn("tool", <<nm, "first result">>, <<>>, "nested_tool", 10 * p + 1, <<>>, <<>>),
      Turn("tool", <<nm, "second result">>, <<>>, "nested_tool", 10 * p + 2, <<>>,
           <<>>)>>

SubState(nm, p) == nm :> [tool_call_history |-> NestedHistory(nm, p)]

\* the state persisted on the p-th assistant turn: none, or the caller's history
\* with or without an entry for the callee and for the sibling
AssistantStates(p) ==
    {<<>>}
      \cup
    {((TOOL_CALL_HISTORY_KEY :> OwnHistory(p)) @@ callee) @@ sibling :
        callee \in {<<>>, SubState(Callee, p)},
        sibling \in {<<>>, SubState(Sibling, p)}}

UserAttachments(p) ==
    IF p % 2 = 1 THEN <<AttachmentReference, AttachmentData>> ELSE <<>>

\* the p-th exchange: a user turn and the assistant turn that answered it
Pairs(p) ==
    {<<Turn("user", <<"question", Ordinals[p]>>, <<>>, "", 0, UserAttachments(p), <<>>),
       Turn("assistant", <<"answer", Ordinals[p]>>, <<>>, "", 0, attachments, st)>> :
        attachments \in {<<>>, <<AttachmentUrl, AttachmentData>>},
        st \in AssistantStates(p)}

RECURSIVE Exchanges(_)
\* the conversations of n exchanges
Exchanges(n) ==
    IF n = 0 THEN {<<>>}
    ELSE {earlier \o pair : earlier \in Exchanges(n - 1), pair \in Pairs(n)}

LastUserTurns ==
    {Turn("user", <<"question">>, <<>>, "", 0, attachments, <<>>) :
        attachments \in {<<>>, <<AttachmentUrl>>, <<AttachmentReference, AttachmentData>>}}

\* request.messages: earlier exchanges, then the user turn being answered
OuterConversations ==
    UNION {{earlier \o <<last>> : earlier \in Exchanges(n), last \in LastUserTurns} :
             n \in 0..MaxPairs}

CallArguments == [prompt : {Prompt}, propagate_history : {"absent", "false", "true"}]

AgentIdle ==
    /\ AgentInit
    /\ agent_tools = RegisteredTools
    /\ stage_config = [t \in tools |-> Policy(TRUE, TRUE, TRUE)]
    /\ stages = <<>>

PropagatorInit ==
    /\ AgentIdle
    /\ MirrorIdle
    /\ SiblingIdle
    /\ ApplicationIdle
    /\ AttachmentsIdle
    /\ MeshIdle
    /\ ppc = "called"
    /\ outer \in OuterConversations
    /\ call_arguments \in CallArguments
    /\ outbound = <<>>

\* messages = self._prepare_messages(tool_call_params)
PrepareCall ==
    /\ ppc = "called"
    /\ outbound' = BaseAgentTool_prepare_messages(outer, call_arguments, Callee)
    /\ ppc' = "prepared"
    /\ UNCHANGED <<outer, call_arguments, agent_vars, stages, mirror_vars, sibling_vars,
                   application_vars, attachment_vars, mesh_vars>>

PropagatorNext == PrepareCall

PropagatorSpec == PropagatorInit /\ [][PropagatorNext]_vars

\* ================================================================ properties
History == state[TOOL_CALL_HISTORY_KEY]

\* The round that was joined last: its assistant turn is still assistant_message
\* while the next round's stream is read.
RoundJoined == pc = "stream" /\ round >= 2
JoinedCalls == assistant_message.tool_calls
\* position in the history of the joined round's assistant turn
JoinedBase == Len(History) - Len(JoinedCalls)
JoinedResult(i) == History[JoinedBase + i]

\* what tool.execute can return for a request
IsExecuteResult(tc, m) == \E o \in Execute(tc) : ~o.raised /\ o.message = m
IsErrorDescription(m) == m.content # <<>> /\ m.content[1] = "Error: "

\* C1: a round with N tool calls, whatever calls fail (one call k in particular),
\* yields exactly N tool-result turns, the i-th carrying the id and name of the
\* i-th request and being the capability's result or an error description; no
\* result is dropped or duplicated.
C1_FanOutKeepsRequestOrder ==
    RoundJoined =>
        /\ Len(JoinedCalls) >= 1
        /\ JoinedBase >= 1
        /\ History[JoinedBase] = assistant_message
        /\ \A i \in 1..Len(JoinedCalls) :
             /\ JoinedResult(i).role = "tool"
             /\ JoinedResult(i).tool_call_id = JoinedCalls[i].id
             /\ JoinedResult(i).name = JoinedCalls[i].name
             /\ \/ IsExecuteResult(JoinedCalls[i], JoinedResult(i))
                \/ IsErrorDescription(JoinedResult(i))
        /\ \A i, j \in 1..Len(JoinedCalls) :
             i # j => JoinedResult(i).tool_call_id # JoinedResult(j).tool_call_id

\* two calls, the second failed and the first succeeded
C1_Witness ==
    /\ RoundJoined
    /\ Len(JoinedCalls) = 2
    /\ JoinedBase >= 1
    /\ ~IsErrorDescription(JoinedResult(1))
    /\ JoinedResult(1).content \in {<<"answer">>, <<"result">>}
    /\ IsErrorDescription(JoinedResult(2))

\* C2 (as stated): at every point of a stream whose continuations all hit opened
\* indices, the request at each index holds every fragment delivered for that index.
C2_ArgumentsAreAllFragments ==
    pc = "stream" =>
        \A k \in 1..Len(tool_call_index_map) :
            tool_call_index_map[k].arguments = delivered[tool_call_index_map[k].index]

\* C2 (amended): the request at each index holds, in stream order, the fragments
\* delivered for that index since the index was opened last, the opening delta's
\* own arguments text included.
C2_ArgumentsSinceLastOpening ==
    pc = "stream" =>
        \A k \in 1..Len(tool_call_index_map) :
            tool_call_index_map[k].arguments = since_open[tool_call_index_map[k].index]

\* an opening delta carrying "{}" followed by a continuation "}"
C2_Witness ==
    /\ pc = "stream"
    /\ \E k \in 1..Len(tool_call_index_map) :
         tool_call_index_map[k].arguments = <<"{", "}", "}">>

\* the chunk consumed last holds a continuation for an index that is not open
ContinuationUnopened ==
    \E k \in 1..Len(chunk.tool_calls) :
        /\ chunk.tool_calls[k].id = 0
        /\ ~HasIndex(tool_call_index_map, chunk.tool_calls[k].index)

\* C3 (as stated): a continuation at an index never opened fails the
\* reconstruction with MalformedStreamError, aborting the round before any tool call.
C3_MalformedStreamError ==
    ContinuationUnopened =>
        /\ pc = "failed"
        /\ error = "MalformedStreamError"
        /\ tasks = <<>>

\* C3 (amended): it fails with the KeyError of the lookup, whatever the other
\* indices hold; the round is aborted: no tool call is started, nothing is
\* appended to the history and the model is not invoked again.
C3_ContinuationUnopenedRaisesKeyError ==
    ContinuationUnopened =>
        /\ pc = "failed"
        /\ error = "KeyError"
        /\ tasks = <<>>
        /\ Len(model_calls) = round
        /\ model_calls[round] = PrepareMessages(state)

\* the continuation at an unopened index arrives while the other index is open
C3_Witness ==
    /\ ContinuationUnopened
    /\ tool_call_index_map # <<>>
    /\ pc = "failed"

\* the step in which asyncio.gather returns and the round is folded into the state
JoinStep == pc = "fanout" /\ pc' # "fanout"

IsSuffix(s, t) == Len(s) <= Len(t) /\ SubSeq(t, Len(t) - Len(s) + 1, Len(t)) = s

\* C4: a round with at least one tool call keeps the loop resolving: the history
\* grows by the round's assistant turn followed by its N results, and the model is
\* invoked exactly once more, on a message list that ends with the extended
\* history.  After one round with N tool calls and one round with none, the
\* persisted history is [assistant turn, result 1, ..., result N].
C4_RoundExtendsHistoryAndReinvokes ==
    /\ [][JoinStep =>
            LET calls == assistant_message.tool_calls
                old == state[TOOL_CALL_HISTORY_KEY]
                new == state'[TOOL_CALL_HISTORY_KEY]
            IN  /\ Len(calls) >= 1
                /\ pc' = "stream"
                /\ Len(new) = Len(old) + 1 + Len(calls)
                /\ SubSeq(new, 1, Len(old)) = old
                /\ new[Len(old) + 1] = assistant_message
                /\ \A i \in 1..Len(calls) :
                     /\ new[Len(old) + 1 + i].role = "tool"
                     /\ new[Len(old) + 1 + i].tool_call_id = calls[i].id
                /\ round' = round + 1
                /\ Len(model_calls') = Len(model_calls) + 1
                /\ IsSuffix(new, model_calls'[Len(model_calls')])]_vars
    /\ [][(pc = "stream" /\ tool_call_index_map # <<>>) => pc' # "done"]_vars
    /\ []((pc = "done" /\ round = 2) =>
            /\ choice_state = <<state>>
            /\ History # <<>>
            /\ History[1].role = "assistant"
            /\ Len(History) = 1 + Len(History[1].tool_calls)
            /\ \A i \in 1..Len(History[1].tool_calls) :
                 /\ History[i + 1].role = "tool"
                 /\ History[i + 1].tool_call_id = History[1].tool_calls[i].id)

\* a resolution of one round with two tool calls and a round with none
C4_Witness ==
    /\ pc = "done"
    /\ round = 2
    /\ Len(History) = 3
    /\ choice_state = <<state>>

AssistantTurns(h) == {k \in 1..Len(h) : h[k].role = "assistant"}

\* C5: the loop is Done exactly when a round yields zero tool calls: the returned
\* turn has no tool calls and the accumulated state (the history of every completed
\* round and the sub-state map) is the state set on the choice.
C5_DoneExactlyWhenNoToolCalls ==
    /\ [](pc = "done" =>
            /\ assistant_message.role = "assistant"
            /\ assistant_message.tool_calls = <<>>
            /\ error = "none"
            /\ choice_state = <<state>>
            /\ Cardinality(AssistantTurns(History)) = round - 1)
    /\ [][(pc # "done" /\ pc' = "done") =>
            (pc = "stream" /\ tool_call_index_map = <<>>)]_vars
    /\ [][(pc = "stream" /\ pc' \notin {"stream", "failed"} /\ tool_call_index_map = <<>>)
            => pc' = "done"]_vars

\* Done after a round whose sub-agent call left a sub-state entry
C5_Witness ==
    /\ pc = "done"
    /\ round >= 2
    /\ DOMAIN state # {TOOL_CALL_HISTORY_KEY}
    /\ choice_state = <<state>>

HasUnknownCall ==
    \E i \in 1..Len(assistant_message.tool_calls) :
        assistant_message.tool_calls[i].name \notin tools_dict

\* C6 (as stated): a tool call naming an unregistered capability is fatal:
\* once its fan-out is over handle_request has failed with UnknownCapabilityError,
\* nothing was appended for the round and the model was not invoked again.
C6_UnknownCapabilityIsFatal ==
    (HasUnknownCall /\ pc # "fanout") =>
        /\ pc = "failed"
        /\ error = "UnknownCapabilityError"

\* C6 (amended): the KeyError of the registry lookup is caught at the join and
\* becomes that call's error turn (the call's id and name, content "Error: " and
\* the quoted name); the round is appended and the model is invoked again (the
\* resolution can then only fail on the next round's stream).
C6_UnknownCapabilityBecomesErrorTurn ==
    (HasUnknownCall /\ pc # "fanout") =>
        /\ round >= 2
        /\ pc = "stream" \/ (pc = "failed" /\ ContinuationUnopened)
        /\ Len(model_calls) = round
        /\ JoinedBase >= 1
        /\ History[JoinedBase] = assistant_message
        /\ \A i \in 1..Len(JoinedCalls) :
             JoinedCalls[i].name \notin tools_dict =>
                JoinedResult(i) = ToolMessage(JoinedCalls[i].name, JoinedCalls[i].id,
                                              <<"Error: ", JoinedCalls[i].name>>, <<>>)

C6_Witness == HasUnknownCall /\ RoundJoined

\* tool.execute of task i failed: it raised, or it returned its own error report
ExecuteRaised(i) == tasks[i].pc = "raised" /\ tasks[i].at = "execute"
ExecuteReportedError(i) ==
    /\ tasks[i].pc = "returned"
    /\ tasks[i].result.content # <<>>
    /\ tasks[i].result.content[1] = "ERROR during tool call execution"

\* the turn the join step appends for task i
AppendedResult(i) == state'[TOOL_CALL_HISTORY_KEY][Len(History) + 1 + i]

C8_StagesClosedAtJoin ==
    (pc = "fanout" /\ GatherReady(tasks)) =>
        \A i \in 1..Len(tasks) :
            tasks[i].stage # NoStage =>
                /\ stages[tasks[i].stage].status = "closed"
                /\ stages[tasks[i].stage].closes = 1

Finished(t) == t.pc \in {"returned", "raised"}

\* C9: the calls of a round are failure-isolated under every interleaving: a call
\* that fails changes nothing of its siblings, a sibling that has not finished can
\* always take its next step, the join waits for every sibling, and a sibling that
\* returns has had its effects (its result, its sub-state entry, its Stage closed).
C9_FailureIsolation ==
    /\ [][JoinStep => \A j \in 1..Len(tasks) : Finished(tasks[j])]_vars
    /\ [][\A i \in 1..Len(tasks) :
            (pc = "fanout" /\ pc' = "fanout" /\ ~Finished(tasks[i])
               /\ tasks'[i].pc = "raised")
            => \A j \in 1..Len(tasks) : j # i => tasks'[j] = tasks[j]]_vars
    /\ [](pc = "fanout" =>
            \A j \in 1..Len(tasks) :
                /\ tasks[j].pc = "awaiting" => ENABLED ProcessToolCallFinish(j)
                /\ (tasks[j].pc = "pending"
                      /\ \A k \in 1..(j - 1) : tasks[k].pc # "pending")
                   => ENABLED ProcessToolCallStart(j))
    /\ [][\A j \in 1..Len(tasks) :
            (pc = "fanout" /\ pc' = "fanout" /\ tasks[j].pc = "awaiting"
               /\ tasks'[j].pc = "returned")
            => /\ tasks'[j].result.role = "tool"
               /\ tasks'[j].result.tool_call_id = assistant_message.tool_calls[j].id
               /\ tasks'[j].result.state # <<>> =>
                    assistant_message.tool_calls[j].name \in DOMAIN state'
               /\ tasks'[j].stage # NoStage =>
                    stages'[tasks'[j].stage].status = "closed"]_vars

\* the first call failed at the registry lookup and its sibling has returned since
C9_Witness ==
    /\ pc = "fanout"
    /\ Len(tasks) = 2
    /\ tasks[1].pc = "raised"
    /\ tasks[2].pc = "returned"
    /\ tasks[2].stage # NoStage
    /\ stages[tasks[2].stage].status = "closed"

\* C10: the agent's state is not mutated while a tool call of the round is still
\* in flight; every mutation comes after the join.
C10_StateMutatedOnlyAfterJoin ==
    [][state' # state =>
        \A j \in 1..Len(tasks') : tasks'[j].pc \notin {"pending", "awaiting"}]_vars

\* tool.execute of task i has just returned a success result that carries a
\* non-empty nested tool-call history (the task may still fail while recording it)
ReturnedNestedHistory(i) ==
    /\ pc = "fanout" /\ pc' = "fanout"
    /\ tasks[i].pc = "awaiting"
    /\ \/ tasks'[i].pc = "returned" /\ tasks'[i].result.state # <<>>
       \/ tasks'[i].pc = "raised" /\ tasks'[i].at = "gather"

SubHistory(st, name) ==
    IF name \in DOMAIN st THEN st[name][TOOL_CALL_HISTORY_KEY] ELSE <<>>

\* C11: every successful call of a sub-agent whose result carries a nested history
\* yields a success result, and the entry under the capability's name then holds
\* the histories of all such calls so far, merged in one tool_call_history.
C11_RepeatCallsMergeNestedHistory ==
    [][\A i \in 1..Len(tasks) :
         ReturnedNestedHistory(i) =>
            LET name == assistant_message.tool_calls[i].name
            IN  /\ tasks'[i].pc = "returned"
                /\ SubHistory(state', name) =
                     SubHistory(state, name) \o tasks'[i].result.state]_vars

\* the turns of h after position a that belong to the assistant turn at a
ResultsOf(h, a) ==
    {k \in (a + 1)..Len(h) :
        /\ h[k].role = "tool"
        /\ \A j \in (a + 1)..k : h[j].role # "assistant"}

\* C12: in the tool-call history every tool turn answers a request of the nearest
\* preceding assistant turn, every request of an assistant turn has exactly one
\* tool turn, and the tool turns come in the order of the requests.
C12_HistoryPairsResultsWithRequests ==
    /\ \A k \in 1..Len(History) :
         History[k].role = "tool" =>
            \E a \in 1..(k - 1) :
                /\ History[a].role = "assistant"
                /\ k \in ResultsOf(History, a)
                /\ k - a <= Len(History[a].tool_calls)
                /\ History[k].tool_call_id = History[a].tool_calls[k - a].id
    /\ \A a \in 1..Len(History) :
         History[a].role = "assistant" =>
            \A i \in 1..Len(History[a].tool_calls) :
                /\ {k \in ResultsOf(History, a) :
                      History[k].tool_call_id = History[a].tool_calls[i].id} = {a + i}
                /\ History[a + i].name = History[a].tool_calls[i].name

\* two rounds in the history, and a round of two calls whose first call failed
C12_Witness ==
    /\ Len(History) >= 3
    /\ \E a \in 1..Len(History) :
         /\ History[a].role = "assistant"
         /\ Len(History[a].tool_calls) = 2
         /\ History[a + 1].content[1] = "Error: "
         /\ History[a + 2].content = <<"result">>

IsList(h) == DOMAIN h = 1..Cardinality(DOMAIN h)
IsTurnList(h) ==
    /\ IsList(h)
    /\ \A k \in DOMAIN h :
         /\ DOMAIN h[k] = DOMAIN NoMessage
         /\ h[k].role \in {"assistant", "tool"}

\* C13: the state blob always has the wire shape: tool_call_history is a list of
\* turns and every other key is a capability name mapped to a record whose only
\* key is tool_call_history, itself a list of turns.
C13_StateHasWireShape ==
    /\ TOOL_CALL_HISTORY_KEY \in DOMAIN state
    /\ IsTurnList(state[TOOL_CALL_HISTORY_KEY])
    /\ \A key \in DOMAIN state \ {TOOL_CALL_HISTORY_KEY} :
         /\ key \in tools_dict
         /\ DOMAIN state[key] = {TOOL_CALL_HISTORY_KEY}
         /\ IsTurnList(state[key][TOOL_CALL_HISTORY_KEY])
         /\ state[key][TOOL_CALL_HISTORY_KEY] # <<>>

\* a first call recorded its sub-state, a repeat call failed recording its own,
\* and the round was joined
C13_Witness ==
    /\ RoundJoined
    /\ DOMAIN state # {TOOL_CALL_HISTORY_KEY}
    /\ \E i \in 1..Len(JoinedCalls) :
         JoinedResult(i).content = <<"Error: ">> \o DictExtendErrorText

\* ------------------------------------- BaseAgentTool._execute, one call of it
\* chunks the callee may stream in one call
MaxCalleeChunks == 3

\* the indexes the callee gives its stages
StageIndexes == {0, 1}
StageNames == <<"nested stage 0", "nested stage 1">>
\* what a stage of the callee writes, token by token: its content is append-only,
\* so every snapshot of it is a prefix of this text
StageText == <<"a", "b", "c", "d">>

StageData(idx, n, status) ==
    [index |-> idx, name |-> StageNames[idx + 1], content |-> SubSeq(StageText, 1, n),
     status |-> status]

\* what the callee can report of stage idx next, given what it reported last
NextStageData(src, idx) ==
    IF idx \notin DOMAIN src
    THEN {StageData(idx, n, "open") : n \in {0, 1}}
    ELSE IF src[idx].status = "completed"
    THEN {src[idx]}
    ELSE {StageData(idx, n, status) :
            n \in {Len(src[idx].content), Len(src[idx].content) + 1},
            status \in {"open", "completed"}}

\* state["stages"] of the callee's next snapshot: the stages it has so far, each
\* as it is now
Snapshots(src) ==
    {snapshot \in UNION {[present -> UNION {NextStageData(src, idx) : idx \in present}] :
                            present \in SUBSET StageIndexes} :
        /\ DOMAIN src \subseteq DOMAIN snapshot
        /\ DOMAIN snapshot # {}
        /\ \A idx \in DOMAIN snapshot : snapshot[idx] \in NextStageData(src, idx)}

\* (mutation) a stage is created for every snapshot of an index
MirrorStageAlwaysCreating(stgs, smap, stage_data) ==
    LET opened == open_stage(stgs, stage_data.name, 0)
        k == Len(opened)
        written == IF stage_data.content # <<>>
                      /\ stage_data.content # opened[k].content
                   THEN append_content(opened, k, stage_data.content)
                   ELSE opened
    IN  [stages |-> IF stage_data.status = "completed"
                    THEN close_stage_safely(written, k) ELSE written,
         stages_map |-> [idx \in DOMAIN smap \cup {stage_data.index} |->
                            IF idx = stage_data.index THEN k ELSE smap[idx]]]

\* one stage_data of the snapshot: get or create the mirror, propagate the
\* content, close the mirror if the source is completed
MirrorStage(stgs, smap, stage_data) ==
    LET created == stage_data.index \notin DOMAIN smap
        opened == IF created THEN open_stage(stgs, stage_data.name, 0) ELSE stgs
        k == IF created THEN Len(opened) ELSE smap[stage_data.index]
        written == IF stage_data.content # <<>>
                      /\ stage_data.content # opened[k].content
                   THEN append_content(opened, k, stage_data.content)
                   ELSE opened
    IN  [stages |-> IF stage_data.status = "completed"
                    THEN close_stage_safely(written, k) ELSE written,
         stages_map |-> [idx \in DOMAIN smap \cup {stage_data.index} |->
                            IF idx = stage_data.index THEN k ELSE smap[idx]]]

RECURSIVE MirrorStages(_, _, _, _)
\* for stage_data in stages: the stages of the snapshot with index >= idx
MirrorStages(stgs, smap, snapshot, idx) ==
    IF \A j \in DOMAIN snapshot : j < idx
    THEN [stages |-> stgs, stages_map |-> smap]
    ELSE IF idx \notin DOMAIN snapshot
    THEN MirrorStages(stgs, smap, snapshot, idx + 1)
    ELSE LET r == MirrorStage(stgs, smap, snapshot[idx])
         IN  MirrorStages(r.stages, r.stages_map, snapshot, idx + 1)

RECURSIVE CloseStages(_, _, _)
\* for stage in stages_map.values(): StageProcessor.close_stage_safely(stage)
CloseStages(stgs, smap, todo) ==
    IF todo = {} THEN stgs
    ELSE LET idx == CHOOSE i \in todo : TRUE
         IN  CloseStages(close_stage_safely(stgs, smap[idx]), smap, todo \ {idx})

\* an attachment the caller's choice may hold before the call
EarlierAttachment == "earlier.txt"
\* response_custom_content.attachments of one chunk: one attachment, or two
Emissions == {<<"chart.png">>, <<"report.csv", "chart.png">>}

\* (mutation) the attachments are kept for the tool message and not added to the
\* choice
PropagateAttachmentsToResultOnly(cc, ch, attachments) ==
    [custom_content |-> [cc EXCEPT !.attachments = @ \o attachments],
     choice_attachments |-> ch]

\* for attachment in response_custom_content.attachments:
\*     custom_content.attachments.append(attachment)
\*     tool_call_params.choice.add_attachment(attachment)
RECURSIVE PropagateAttachments(_, _, _)
PropagateAttachments(cc, ch, attachments) ==
    IF attachments = <<>>
    THEN [custom_content |-> cc, choice_attachments |-> ch]
    ELSE PropagateAttachments([cc EXCEPT !.attachments = Append(@, Head(attachments))],
                              Append(ch, Head(attachments)),
                              Tail(attachments))

\* Message(role=TOOL, name, tool_call_id, content=content,
\*         custom_content=custom_content), the value _execute returns
ReturnedMessage ==
    [role |-> "tool", content |-> callee_content, custom_content |-> custom_content]

\* a call of the proxy, with or without a stage of its own
MirrorInit ==
    /\ AgentInit
    /\ agent_tools = RegisteredTools
    /\ stage_config = [t \in tools |-> Policy(TRUE, TRUE, TRUE)]
    /\ PropagatorIdle
    /\ SiblingIdle
    /\ ApplicationIdle
    /\ MeshIdle
    /\ emitted = <<>>
    /\ choice_attachments \in {<<>>, <<EarlierAttachment>>}
    /\ custom_content = [attachments |-> <<>>]
    /\ epc = "start"
    /\ own_stage \in {NoStage, 1}
    /\ stages = IF own_stage = NoStage THEN <<>> ELSE open_stage(<<>>, Callee, 1)
    /\ source = <<>>
    /\ stages_map = <<>>
    /\ callee_content = <<>>
    /\ callee_chunks = 0

\* the arguments are parsed, the messages prepared and the callee is called; the
\* parse or the call may raise
ExecuteStart ==
    /\ epc = "start"
    /\ epc' \in {"streaming", "raised"}
    /\ UNCHANGED <<own_stage, source, stages_map, callee_content, callee_chunks,
                   stages, agent_vars, propagator_vars,
                   sibling_vars, application_vars, attachment_vars, mesh_vars>>

\* a chunk with content: streamed to the call's own stage and accumulated
ContentChunk ==
    /\ epc = "streaming"
    /\ callee_chunks < MaxCalleeChunks
    /\ callee_chunks' = callee_chunks + 1
    /\ callee_content' = callee_content \o <<"answer">>
    /\ stages' = IF own_stage # NoStage
                  THEN append_content(stages, own_stage, <<"answer">>)
                  ELSE stages
    /\ UNCHANGED <<epc, own_stage, source, stages_map, agent_vars, propagator_vars,
                   sibling_vars, application_vars, attachment_vars, mesh_vars>>

\* a chunk whose custom_content.state lists the callee's stages
StagesChunk ==
    /\ epc = "streaming"
    /\ callee_chunks < MaxCalleeChunks
    /\ callee_chunks' = callee_chunks + 1
    /\ \E snapshot \in Snapshots(source) :
         LET r == MirrorStages(stages, stages_map, snapshot, 0)
         IN  /\ source' = snapshot
             /\ stages' = r.stages
             /\ stages_map' = r.stages_map
    /\ UNCHANGED <<epc, own_stage, callee_content, agent_vars, propagator_vars,
                   sibling_vars, application_vars, attachment_vars, mesh_vars>>

\* a chunk whose custom_content lists attachments: each is kept for the tool
\* message and added to the caller's choice
AttachmentsChunk ==
    /\ epc = "streaming"
    /\ callee_chunks < MaxCalleeChunks
    /\ callee_chunks' = callee_chunks + 1
    /\ \E attachments \in Emissions :
         LET r == PropagateAttachments(custom_content, choice_attachments,
                                       attachments)
         IN  /\ emitted' = emitted \o attachments
             /\ custom_content' = r.custom_content
             /\ choice_attachments' = r.choice_attachments
    /\ UNCHANGED <<epc, own_stage, source, stages_map, callee_content, stages,
                   agent_vars, propagator_vars, sibling_vars, application_vars,
                   mesh_vars>>

\* the stream ends: every mirror is closed and the tool message returned
StreamEnds ==
    /\ epc = "streaming"
    /\ stages' = CloseStages(stages, stages_map, DOMAIN stages_map)
    /\ epc' = "returned"
    /\ UNCHANGED <<own_stage, source, stages_map, callee_content, callee_chunks,
                   agent_vars, propagator_vars,
                   sibling_vars, application_vars, attachment_vars, mesh_vars>>

\* reading the next chunk raises (the connection fails, the callee times out)
StreamFails ==
    /\ epc = "streaming"
    /\ epc' = "raised"
    /\ UNCHANGED <<own_stage, source, stages_map, callee_content, callee_chunks,
                   stages, agent_vars, propagator_vars,
                   sibling_vars, application_vars, attachment_vars, mesh_vars>>

MirrorNext ==
    \/ ExecuteStart
    \/ ContentChunk
    \/ StagesChunk
    \/ AttachmentsChunk
    \/ StreamEnds
    \/ StreamFails

MirrorSpec == MirrorInit /\ [][MirrorNext]_vars

\* ------------------- two sibling calls of the proxy, run by one asyncio.gather
\* chunks the two callees may stream between them
MaxSiblingChunks == 3

\* (mutation) one map serves every call, as an attribute of the tool would
StagesMapOfTool(sib, c) == sib[1].stages_map

\* stages_map: dict[int, Stage] = {}, a local of the call's _execute frame
StagesMapOf(sib, c) == sib[c].stages_map

\* the stages created in a step of call c, marked as opened by it
OpenedBy(stgs, before, c) ==
    [k \in 1..Len(stgs) |->
        IF k > before THEN [stgs[k] EXCEPT !.owner = c] ELSE stgs[k]]

\* the model asked for the same agent twice in one round: both calls go through
\* the one proxy object of the registry, each with or without a stage of its own
SiblingsInit ==
    /\ AgentInit
    /\ agent_tools = RegisteredTools
    /\ stage_config \in {[t \in tools |-> Policy(TRUE, FALSE, TRUE)],
                         [t \in tools |-> Policy(FALSE, FALSE, FALSE)]}
    /\ stages = <<>>
    /\ PropagatorIdle
    /\ MirrorIdle
    /\ ApplicationIdle
    /\ AttachmentsIdle
    /\ MeshIdle
    /\ siblings = [c \in Calls |-> [NoCall EXCEPT !.pc = "start"]]

\* _process_tool_call up to the call of the callee: the call's stage is opened
SiblingStart(c) ==
    /\ siblings[c].pc = "start"
    /\ LET cfg == stage_config[Callee]
           opened == IF cfg.create_stage THEN open_stage(stages, Callee, c)
                     ELSE stages
       IN  /\ stages' = opened
           /\ siblings' = [siblings EXCEPT
                 ![c].pc = "streaming",
                 ![c].own_stage = IF cfg.create_stage THEN Len(opened) ELSE NoStage]
    /\ UNCHANGED <<agent_vars, propagator_vars, mirror_vars, application_vars, attachment_vars, mesh_vars>>

SiblingChunks == siblings[1].chunks + siblings[2].chunks

\* a chunk with content: streamed to the call's own stage and accumulated
SiblingContentChunk(c) ==
    /\ siblings[c].pc = "streaming"
    /\ SiblingChunks < MaxSiblingChunks
    /\ siblings' = [siblings EXCEPT ![c].chunks = @ + 1,
                                  ![c].content = @ \o <<"answer">>]
    /\ stages' = IF siblings[c].own_stage # NoStage
                  THEN append_content(stages, siblings[c].own_stage, <<"answer">>)
                  ELSE stages
    /\ UNCHANGED <<agent_vars, propagator_vars, mirror_vars, application_vars, attachment_vars, mesh_vars>>

\* a chunk whose custom_content.state lists the stages of the call's callee
SiblingStagesChunk(c) ==
    /\ siblings[c].pc = "streaming"
    /\ SiblingChunks < MaxSiblingChunks
    /\ \E snapshot \in Snapshots(siblings[c].source) :
         LET r == MirrorStages(stages, StagesMapOf(siblings, c), snapshot, 0)
         IN  /\ stages' = OpenedBy(r.stages, Len(stages), c)
             /\ siblings' = [siblings EXCEPT ![c].chunks = @ + 1,
                                           ![c].source = snapshot,
                                           ![c].stages_map = r.stages_map]
    /\ UNCHANGED <<agent_vars, propagator_vars, mirror_vars, application_vars, attachment_vars, mesh_vars>>

\* the stream of the call ends: its mirrors are closed and _execute returns
SiblingStreamEnds(c) ==
    /\ siblings[c].pc = "streaming"
    /\ stages' = CloseStages(stages, StagesMapOf(siblings, c),
                             DOMAIN StagesMapOf(siblings, c))
    /\ siblings' = [siblings EXCEPT ![c].pc = "returned"]
    /\ UNCHANGED <<agent_vars, propagator_vars, mirror_vars, application_vars, attachment_vars, mesh_vars>>

\* reading the next chunk raises: the exception leaves _execute
SiblingStreamFails(c) ==
    /\ siblings[c].pc = "streaming"
    /\ siblings' = [siblings EXCEPT ![c].pc = "raised"]
    /\ UNCHANGED <<stages, agent_vars, propagator_vars, mirror_vars,
                   application_vars, attachment_vars, mesh_vars>>

\* _process_tool_call after the callee returned: the response is shown in the
\* call's stage and the stage closed
SiblingFinish(c) ==
    /\ siblings[c].pc = "returned"
    /\ LET stage == siblings[c].own_stage
           shown == IF stage # NoStage /\ stage_config[Callee].show_response_in_stage
                    THEN append_content(stages, stage,
                                        <<"## Response: ">> \o siblings[c].content)
                    ELSE stages
       IN  stages' = IF stage # NoStage THEN close_stage_safely(shown, stage)
                     ELSE shown
    /\ siblings' = [siblings EXCEPT ![c].pc = "done"]
    /\ UNCHANGED <<agent_vars, propagator_vars, mirror_vars, application_vars, attachment_vars, mesh_vars>>

SiblingsNext ==
    \/ \E c \in Calls : SiblingStart(c)
    \/ \E c \in Calls : SiblingContentChunk(c)
    \/ \E c \in Calls : SiblingStagesChunk(c)
    \/ \E c \in Calls : SiblingStreamEnds(c)
    \/ \E c \in Calls : SiblingStreamFails(c)
    \/ \E c \in Calls : SiblingFinish(c)

SiblingsSpec == SiblingsInit /\ [][SiblingsNext]_vars

\* ------------------- CalculationsApplication serving two concurrent requests
\* rounds with tool calls in the resolution of one request
MaxRequestRounds == 2

\* the tools CalculationsApplication.__init__ creates
ApplicationTools == <<"simple_calculator", "content_management_agent",
                      "web_search_agent">>
\* the tool PythonCodeInterpreterTool.create returns when awaited by request r
Interpreters == <<"execute_code created in request 1",
                  "execute_code created in request 2">>
RequestTags == <<"request 1", "request 2">>

\* tools = [tool for tool in [simple_calculator_tool, python_code_interpreter_tool,
\*                            content_management_agent_tool, web_search_agent_tool]
\*          if tool is not None]
ToolsList(app) ==
    SelectSeq(<<ApplicationTools[1], app.python_code_interpreter_tool,
                ApplicationTools[2], ApplicationTools[3]>>,
              LAMBDA t : t # NoTool)

\* BaseAgent.__init__: the tools as given and a state of its own
NewAgent(tool_list) ==
    [tools |-> tool_list, state |-> (TOOL_CALL_HISTORY_KEY :> <<>>)]

\* (mutation) the application keeps the agent it constructed first
ConstructAgentOnce(heap, tool_list) ==
    IF heap = <<>> THEN <<NewAgent(tool_list)>> ELSE heap

\* agent = CalculationsAgent(tools=tools): a new object, last of those constructed
ConstructAgent(heap, tool_list) == Append(heap, NewAgent(tool_list))

RequestsInit ==
    /\ AgentInit
    /\ agent_tools = RegisteredTools
    /\ stage_config = [t \in tools |-> Policy(TRUE, TRUE, TRUE)]
    /\ stages = <<>>
    /\ PropagatorIdle
    /\ MirrorIdle
    /\ SiblingIdle
    /\ AttachmentsIdle
    /\ MeshIdle
    /\ application = [tools_initialized |-> FALSE,
                      python_code_interpreter_tool |-> NoTool]
    /\ requests = [r \in Requests |-> [NoRequest EXCEPT !.pc = "received"]]
    /\ agents = <<>>

\* _initialize_tools: if not self._tools_initialized, up to the await of create
InitializeToolsCheck(r) ==
    /\ requests[r].pc = "received"
    /\ requests' = [requests EXCEPT ![r].pc =
                        IF application.tools_initialized THEN "initialized"
                        ELSE "creating"]
    /\ UNCHANGED <<application, agents, stages, agent_vars, propagator_vars,
                   mirror_vars, sibling_vars, attachment_vars, mesh_vars>>

\* PythonCodeInterpreterTool.create returned: the tool and the flag are stored
InitializeToolsCreated(r) ==
    /\ requests[r].pc = "creating"
    /\ application' = [tools_initialized |-> TRUE,
                       python_code_interpreter_tool |-> Interpreters[r]]
    /\ requests' = [requests EXCEPT ![r].pc = "initialized"]
    /\ UNCHANGED <<agents, stages, agent_vars, propagator_vars, mirror_vars,
                   sibling_vars, attachment_vars, mesh_vars>>

\* PythonCodeInterpreterTool.create raised: chat_completion logs and re-raises
InitializeToolsFails(r) ==
    /\ requests[r].pc = "creating"
    /\ requests' = [requests EXCEPT ![r].pc = "failed"]
    /\ UNCHANGED <<application, agents, stages, agent_vars, propagator_vars,
                   mirror_vars, sibling_vars, attachment_vars, mesh_vars>>

\* the tools list is built and the agent constructed; handle_request is awaited
CreateAgent(r) ==
    /\ requests[r].pc = "initialized"
    /\ LET tool_list == ToolsList(application)
           heap == ConstructAgent(agents, tool_list)
       IN  /\ agents' = heap
           /\ requests' = [requests EXCEPT ![r].pc = "resolving",
                                           ![r].tools = tool_list,
                                           ![r].agent = Len(heap)]
    /\ UNCHANGED <<application, stages, agent_vars, propagator_vars, mirror_vars,
                   sibling_vars, attachment_vars, mesh_vars>>

\* a round of the request's resolution that made a tool call: the round is
\* appended to the state of the request's agent
ResolveRound(r) ==
    /\ requests[r].pc = "resolving"
    /\ requests[r].rounds < MaxRequestRounds
    /\ LET a == requests[r].agent
           assistant == AssistantMessage(<<>>, <<[PriorToolCall EXCEPT
                                                   !.id = requests[r].rounds + 1]>>)
           result == ToolMessage("simple_calculator", requests[r].rounds + 1,
                                 <<RequestTags[r]>>, <<>>)
       IN  agents' = [agents EXCEPT ![a].state =
                        AppendRound(@, assistant, <<result>>)]
    /\ requests' = [requests EXCEPT ![r].rounds = @ + 1]
    /\ UNCHANGED <<application, stages, agent_vars, propagator_vars, mirror_vars,
                   sibling_vars, attachment_vars, mesh_vars>>

\* the round without tool calls: the agent's state is set on the request's choice
ResolveDone(r) ==
    /\ requests[r].pc = "resolving"
    /\ requests' = [requests EXCEPT
                       ![r].pc = "done",
                       ![r].response = SetState(@, agents[requests[r].agent].state)]
    /\ UNCHANGED <<application, agents, stages, agent_vars, propagator_vars,
                   mirror_vars, sibling_vars, attachment_vars, mesh_vars>>

RequestsNext ==
    \/ \E r \in Requests : InitializeToolsCheck(r)
    \/ \E r \in Requests : InitializeToolsCreated(r)
    \/ \E r \in Requests : InitializeToolsFails(r)
    \/ \E r \in Requests : CreateAgent(r)
    \/ \E r \in Requests : ResolveRound(r)
    \/ \E r \in Requests : ResolveDone(r)

RequestsSpec == RequestsInit /\ [][RequestsNext]_vars

\* ------------------------------------------------ properties of the propagator
Propagated == ppc = "prepared" /\ call_arguments.propagate_history = "true"
NotPropagated == ppc = "prepared" /\ call_arguments.propagate_history # "true"

\* the callee's history stored with the outer assistant turn at position i
StoredHistory(i) == outer[i].state[Callee][TOOL_CALL_HISTORY_KEY]

\* C14: with propagate_history, the list built for the call reproduces verbatim,
\* with all its fields, every turn of the callee's history stored with an earlier
\* outer assistant turn.
C14_RoundTripReproducesStoredTurns ==
    Propagated =>
        \A i \in 1..Len(outer) :
            HasAgentState(outer, i, Callee) =>
                \A k \in 1..Len(StoredHistory(i)) :
                    \E j \in 1..Len(outbound) : outbound[j] = StoredHistory(i)[k]

ToolTurnsOf(i) == SelectSeq(StoredHistory(i), IsToolTurn)
BlockLength(i) == 1 + Len(ToolTurnsOf(i)) + 1

RECURSIVE Offset(_)
\* the length of what the positions before i contribute
Offset(i) ==
    IF i = 1 THEN 0
    ELSE Offset(i - 1)
           + (IF HasAgentState(outer, i - 1, Callee) THEN BlockLength(i - 1) ELSE 0)

\* C15: with propagate_history the list is, for each outer assistant turn that has
\* a sub-state entry for the capability, in outer order: the preceding user turn,
\* the tool turns of the stored history in stored order, the assistant turn
\* itself; other turns contribute nothing; the prompt comes last, as a user turn.
C15_PropagatedOrder ==
    Propagated =>
        /\ Len(outbound) = Offset(Len(outer) + 1) + 1
        /\ outbound[Len(outbound)].role = "user"
        /\ outbound[Len(outbound)].content = Prompt
        /\ \A i \in 1..Len(outer) :
             HasAgentState(outer, i, Callee) =>
                /\ outbound[Offset(i) + 1].role = "user"
                /\ outbound[Offset(i) + 1].content = outer[i - 1].content
                /\ \A k \in 1..Len(ToolTurnsOf(i)) :
                     /\ outbound[Offset(i) + 1 + k].role = "tool"
                     /\ outbound[Offset(i) + 1 + k].content = ToolTurnsOf(i)[k].content
                     /\ outbound[Offset(i) + 1 + k].tool_call_id
                          = ToolTurnsOf(i)[k].tool_call_id
                /\ outbound[Offset(i) + BlockLength(i)].role = "assistant"
                /\ outbound[Offset(i) + BlockLength(i)].content = outer[i].content

\* the first exchange left a sub-state for the callee, the second did not
C15_Witness ==
    /\ Propagated
    /\ Len(outer) = 5
    /\ HasAgentState(outer, 2, Callee)
    /\ Sibling \in DOMAIN outer[4].state
    /\ ~HasAgentState(outer, 4, Callee)
    /\ Len(outbound) = 5

CalleePart(st) == IF Callee \in DOMAIN st THEN <<st[Callee]>> ELSE <<>>

\* the states that differ from st at most in the caller's own history and in the
\* entries of other capabilities
ForeignVariants(st, p) ==
    {v \in {<<>>} \cup
           {((TOOL_CALL_HISTORY_KEY :> own) @@ callee) @@ sibling :
               own \in {<<>>, OwnHistory(p)},
               callee \in {<<>>, SubState(Callee, p)},
               sibling \in {<<>>, SubState(Sibling, p)}} :
        CalleePart(v) = CalleePart(st)}

RECURSIVE VariantConversations(_, _)
\* the conversations that differ from the first i turns of `messages` in nothing
\* but those parts of the assistant turns' states
VariantConversations(messages, i) ==
    IF i = 0 THEN {<<>>}
    ELSE LET turns == IF messages[i].role = "assistant"
                      THEN {[messages[i] EXCEPT !.state = v] :
                              v \in ForeignVariants(messages[i].state, i \div 2)}
                      ELSE {messages[i]}
         IN  {Append(earlier, turn) :
                earlier \in VariantConversations(messages, i - 1), turn \in turns}

\* C16: the list sent to the callee reveals nothing of the siblings' state: every
\* assistant turn in it carries the callee's sub-state and nothing else, and outer
\* conversations that differ only in other capabilities' entries or in the
\* caller's own tool_call_history give the same list.
C16_OutboundHidesForeignState ==
    ppc = "prepared" =>
        /\ \A j \in 1..Len(outbound) :
             outbound[j].role = "assistant" =>
                \E i \in 1..Len(outer) :
                    /\ HasAgentState(outer, i, Callee)
                    /\ outbound[j].state = outer[i].state[Callee]
        /\ \A v \in VariantConversations(outer, Len(outer)) :
             BaseAgentTool_prepare_messages(v, call_arguments, Callee) = outbound

\* an assistant turn that held entries of both capabilities was propagated
C16_Witness ==
    /\ Propagated
    /\ \E i \in 1..Len(outer) :
         /\ HasAgentState(outer, i, Callee)
         /\ Sibling \in DOMAIN outer[i].state
         /\ \E j \in 1..Len(outbound) :
              /\ outbound[j].role = "assistant"
              /\ outbound[j].state = outer[i].state[Callee]

LastTurn == outer[Len(outer)]

\* C17 (as stated): without propagate_history the list is one user turn, the
\* prompt, carrying the attachments of the most recent user turn.
C17_PromptCarriesEveryAttachment ==
    NotPropagated =>
        /\ Len(outbound) = 1
        /\ outbound[1].role = "user"
        /\ outbound[1].content = Prompt
        /\ Len(outbound[1].attachments) = Len(LastTurn.attachments)

\* the attachments of the last turn that have a url or a reference_url
Kept == {k \in 1..Len(LastTurn.attachments) :
            LastTurn.attachments[k].url # "" \/ LastTurn.attachments[k].reference_url # ""}

\* C17 (amended): without propagate_history (false or absent) the list is one user
\* turn whose content is the prompt, whatever the states in the outer history; of
\* the attachments of the most recent user turn it carries, in order, those that
\* have a url or a reference_url, reduced to url, type and title.
C17_PromptCarriesUrlAttachments ==
    NotPropagated =>
        /\ Len(outbound) = 1
        /\ outbound[1].role = "user"
        /\ outbound[1].content = Prompt
        /\ outbound[1].state = <<>>
        /\ Len(outbound[1].attachments) = Cardinality(Kept)
        /\ \A k \in Kept :
             LET att == LastTurn.attachments[k]
                 out == outbound[1].attachments[Cardinality({j \in Kept : j <= k})]
             IN  /\ out.url = (IF att.url # "" THEN att.url ELSE att.reference_url)
                 /\ out.type = att.type
                 /\ out.title = att.title
                 /\ DOMAIN out = {"url", "type", "title"}

\* a conversation with a stored sub-state, not propagated; the last user turn has
\* an attachment with a reference_url and one with inline data only
C17_Witness ==
    /\ NotPropagated
    /\ Len(outer) = 5
    /\ HasAgentState(outer, 2, Callee)
    /\ LastTurn.attachments = <<AttachmentReference, AttachmentData>>
    /\ Len(outbound[1].attachments) = 1

\* ---------------------------------------------- properties of the stage mirror
\* the stage of the caller that mirrors the callee's stage idx
Mirror(idx) == stages[stages_map[idx]]

\* C18: the mirror of a nested stage whose content only grows receives only the
\* added part each time, so after every chunk its content is the source's latest
\* content, with no text duplicated.
C18_MirrorContentEqualsSource ==
    epc \in {"streaming", "returned"} =>
        \A idx \in DOMAIN stages_map : Mirror(idx).content = source[idx].content

\* the stages of the caller created by this call of the proxy
Mirrors == {k \in 1..Len(stages) : k # own_stage}

\* C19: during one call every nested stage index has exactly one mirror: created
\* and opened when the index is first seen, reused for every later snapshot of
\* that index, and shared with no other index.
C19_OneMirrorPerIndex ==
    /\ [](/\ DOMAIN stages_map = DOMAIN source
          /\ \A idx \in DOMAIN stages_map :
               /\ stages_map[idx] \in Mirrors
               /\ Mirror(idx).name = source[idx].name
               /\ \A other \in DOMAIN stages_map :
                    stages_map[other] = stages_map[idx] => other = idx
          /\ Cardinality(Mirrors) = Cardinality(DOMAIN stages_map))
    /\ [][/\ \A idx \in DOMAIN stages_map :
               idx \in DOMAIN stages_map' /\ stages_map'[idx] = stages_map[idx]
          /\ \A idx \in DOMAIN stages_map' \ DOMAIN stages_map :
               /\ stages_map'[idx] > Len(stages)
               /\ idx \in DOMAIN source' \ DOMAIN source]_vars

\* both nested stages are mirrored, and the first was reported again after its
\* mirror was created
C19_Witness ==
    /\ epc = "streaming"
    /\ DOMAIN stages_map = StageIndexes
    /\ callee_chunks = 3
    /\ Len(source[0].content) = 2
    /\ stages_map[0] # stages_map[1]

\* C20: once the call is over, whether the stream ended normally or with a
\* failure, no mirrored stage is open.
C20_NoMirrorOpenAfterCall ==
    epc \in {"returned", "raised"} =>
        \A idx \in DOMAIN stages_map : Mirror(idx).status = "closed"

\* ------------------------------------------ further properties of the agent
\* C21: when a round fails, the first or a later one, the error reaches the caller
\* and the state accumulated by the rounds completed before it was set on the
\* choice.
C21_StateAttachedBeforeReraise ==
    pc = "failed" =>
        /\ error # "none"
        /\ choice_state = <<state>>
        /\ set_state_calls >= 1
        /\ Cardinality(AssistantTurns(History)) = (IF round = 0 THEN 0 ELSE round - 1)

\* the second round failed after a first round that left a sub-state
C21_Witness ==
    /\ pc = "failed"
    /\ round = 2
    /\ DOMAIN state # {TOOL_CALL_HISTORY_KEY}
    /\ Len(History) >= 2

\* the indexes of the reconstructed tool calls, in the order they are kept
IndexesOf(calls) == [k \in 1..Len(calls) |-> calls[k].index]

\* C24 (as stated): the reconstructed tool calls are in increasing index order,
\* whatever the order in which the stream opened the indexes.
C24_ToolCallsInIndexOrder ==
    pc = "fanout" =>
        \A i, j \in 1..Len(assistant_message.tool_calls) :
            i < j => assistant_message.tool_calls[i].index
                       < assistant_message.tool_calls[j].index

ChunkStep == pc = "stream" /\ chunks' = chunks + 1

\* C24 (amended): the reconstructed tool calls are in the order in which their
\* indexes were first opened: an id-bearing delta for a new index puts its call
\* after those opened before, one for an index already open keeps the position;
\* this is the order of the assistant turn's tool_calls and of the result turns.
C24_ToolCallsInOpeningOrder ==
    /\ [][(ChunkStep /\ pc' = "stream" /\ chunk'.tool_calls # <<>>) =>
            LET d == chunk'.tool_calls[1]
            IN  IndexesOf(tool_call_index_map') =
                    IF d.id # 0 /\ ~HasIndex(tool_call_index_map, d.index)
                    THEN Append(IndexesOf(tool_call_index_map), d.index)
                    ELSE IndexesOf(tool_call_index_map)]_vars
    /\ [][(pc = "stream" /\ pc' = "fanout") =>
            assistant_message'.tool_calls = tool_call_index_map]_vars
    /\ [][JoinStep =>
            \A i \in 1..Len(assistant_message.tool_calls) :
                AppendedResult(i).tool_call_id = assistant_message.tool_calls[i].id]_vars

\* index 1 was opened before index 0
C24_Witness ==
    /\ pc = "fanout"
    /\ IndexesOf(assistant_message.tool_calls) = <<1, 0>>

IsPrefix(s, t) == Len(s) <= Len(t) /\ SubSeq(t, 1, Len(s)) = s

\* C29: the tool-call history only grows, by whole rounds: its old value is a
\* prefix of its new value, and every extension is the assistant turn of a joined
\* round followed by all of that round's results; a round that fails adds nothing.
C29_HistoryAppendOnlyByRounds ==
    /\ [][IsPrefix(History, state'[TOOL_CALL_HISTORY_KEY])]_vars
    /\ [][state'[TOOL_CALL_HISTORY_KEY] # History =>
            /\ JoinStep
            /\ Len(state'[TOOL_CALL_HISTORY_KEY])
                 = Len(History) + 1 + Len(assistant_message.tool_calls)
            /\ state'[TOOL_CALL_HISTORY_KEY][Len(History) + 1] = assistant_message
            /\ \A i \in 1..Len(assistant_message.tool_calls) :
                 AppendedResult(i).role = "tool"]_vars
    /\ [][pc' = "failed" => state'[TOOL_CALL_HISTORY_KEY] = History]_vars

\* a round failed after a whole round was appended
C29_Witness ==
    /\ pc = "failed"
    /\ round = 2
    /\ Len(History) = 1 + Len(History[1].tool_calls)
    /\ History[1].role = "assistant"

Terminal == {"done", "failed", "unconstructed"}

\* C23: with a model that converges and executions that terminate, the request
\* is over in the end, and over with "done" unless an error was raised; a round
\* with tool calls, whatever its number, is joined and followed by another model
\* invocation, and nothing but the model's answer ends the loop.
C23_TerminatesWhenModelConverges ==
    /\ <>[](pc \in Terminal /\ (pc = "done" \/ error # "none"))
    /\ (pc = "fanout") ~> (pc = "stream")
    /\ [][JoinStep => pc' = "stream" /\ round' = round + 1
                      /\ Len(model_calls') = Len(model_calls) + 1]_vars
    /\ [][(pc = "stream" /\ pc' = "done") =>
             tool_call_index_map = <<>> /\ UNCHANGED round]_vars

\* done after as many rounds with tool calls as the model's stream allowed
C23_Witness ==
    /\ pc = "done"
    /\ round = MaxChunks + 1
    /\ Cardinality(AssistantTurns(History)) = MaxChunks

TailFrom(m, i) == SubSeq(m, i, Len(m))
SystemTurns(m) == {k \in 1..Len(m) : m[k].role = "system"}
\* the length of the system turn followed by the visible history
VisibleLength == 1 + Len(VisibleHistory(RequestMessages, 1))

Stepping(c) == siblings'[c] # siblings[c]
\* the stages call c holds: its own and its mirrors
HeldBy(c) ==
    {siblings[c].stages_map[idx] : idx \in DOMAIN siblings[c].stages_map}
        \cup (IF siblings[c].own_stage # NoStage THEN {siblings[c].own_stage} ELSE {})

\* C30: whatever the interleaving of two sibling calls, a stage is written and
\* closed only in steps of the call that opened it: the stages a call holds, its
\* own and its mirrors, are stages it opened, no stage is held by both calls, and
\* a step of one call leaves every stage opened by the other as it was, also when
\* both callees number their stages alike.
C30_StagesMutatedByOwnerOnly ==
    /\ [](\A c \in Calls : \A k \in HeldBy(c) :
            k \in 1..Len(stages) /\ stages[k].owner = c)
    /\ [](HeldBy(1) \cap HeldBy(2) = {})
    /\ [][\A k \in 1..Len(stages) :
            stages'[k] # stages[k] =>
                \E c \in Calls :
                    /\ Stepping(c)
                    /\ stages[k].owner = c
                    /\ \A d \in Calls \ {c} : ~Stepping(d)]_vars
    /\ [][\A c \in Calls : Stepping(c) =>
            /\ Len(stages') >= Len(stages)
            /\ \A k \in (Len(stages) + 1)..Len(stages') : stages'[k].owner = c
            /\ \A idx \in DOMAIN siblings[c].stages_map :
                 siblings'[c].stages_map[idx] = siblings[c].stages_map[idx]]_vars

\* both callees reported a stage 0; the first call is over and the second one
\* wrote to its mirror afterwards
C30_Witness ==
    /\ siblings[1].pc = "done"
    /\ siblings[2].pc = "streaming"
    /\ 0 \in DOMAIN siblings[1].stages_map
    /\ 0 \in DOMAIN siblings[2].stages_map
    /\ siblings[1].stages_map[0] < siblings[2].stages_map[0]
    /\ stages[siblings[1].stages_map[0]].status = "closed"
    /\ stages[siblings[2].stages_map[0]].content # <<>>
    /\ stages[siblings[2].stages_map[0]].name = stages[siblings[1].stages_map[0]].name

\* ---------------------------------------- properties of concurrent requests
HasAgent(r) == requests[r].agent # NoAgent
AgentOf(r) == agents[requests[r].agent]
\* the turns of a history that carry the result of a tool call
ResultTurns(h) == {k \in 1..Len(h) : h[k].role = "tool"}
\* the request whose _initialize_tools created the tool, 0 for the tools the
\* application created when it was constructed
CreatedIn(tool) ==
    IF \E r \in Requests : Interpreters[r] = tool
    THEN CHOOSE r \in Requests : Interpreters[r] = tool
    ELSE 0

\* every request has an agent of its own, whose state starts empty and is
\* written in the steps of that request alone
RequestOwnsItsState ==
    /\ [](\A r \in Requests : HasAgent(r) =>
            LET h == AgentOf(r).state[TOOL_CALL_HISTORY_KEY]
            IN  /\ requests[r].agent \in 1..Len(agents)
                /\ \A q \in Requests \ {r} : requests[q].agent # requests[r].agent
                /\ DOMAIN AgentOf(r).state = {TOOL_CALL_HISTORY_KEY}
                /\ Len(h) = 2 * requests[r].rounds
                /\ \A k \in ResultTurns(h) : h[k].content = <<RequestTags[r]>>
                /\ requests[r].pc = "done" =>
                      requests[r].response = <<AgentOf(r).state>>)
    /\ [][\A r \in Requests :
            (~HasAgent(r) /\ requests'[r].agent # NoAgent) =>
                /\ requests'[r].agent > Len(agents)
                /\ agents'[requests'[r].agent].state = (TOOL_CALL_HISTORY_KEY :> <<>>)
                /\ \A a \in 1..Len(agents) : agents'[a] = agents[a]]_vars
    /\ [][\A a \in 1..Len(agents) :
            agents'[a] # agents[a] =>
                \E r \in Requests :
                    /\ requests[r].agent = a
                    /\ requests'[r] # requests[r]
                    /\ \A q \in Requests \ {r} : requests'[q] = requests[q]]_vars

\* C28 (as stated): every request has an agent and a state of its own, and
\* nothing its control loop can reach was written while another request was
\* handled.
C28_NoSharedMutableState ==
    /\ RequestOwnsItsState
    /\ [](\A r \in Requests : HasAgent(r) =>
            \A k \in 1..Len(AgentOf(r).tools) :
                CreatedIn(AgentOf(r).tools[k]) \in {0, r})

\* C28 (amended): every request has an agent and a state of its own; the agents
\* hold the application's tool objects, which all requests share, the code
\* interpreter among them, stored in the application by whichever request
\* finished creating it last before the tools list was built.
C28_StatePerRequestToolsShared ==
    /\ RequestOwnsItsState
    /\ [](\A r \in Requests : HasAgent(r) =>
            /\ Len(AgentOf(r).tools) = Len(ApplicationTools) + 1
            /\ AgentOf(r).tools = requests[r].tools
            /\ \A k \in 1..Len(AgentOf(r).tools) :
                 CreatedIn(AgentOf(r).tools[k]) \in {0} \cup Requests)
    /\ [][\A r \in Requests :
            (~HasAgent(r) /\ requests'[r].agent # NoAgent) =>
                requests'[r].tools = ToolsList(application)]_vars
    /\ []((\A r \in Requests : HasAgent(r)) =>
            \A k \in {1, 3, 4} : AgentOf(1).tools[k] = AgentOf(2).tools[k])

\* the two requests are resolved in turns, the second with the code interpreter
\* the first one created
C28_Witness ==
    /\ \A r \in Requests : requests[r].pc = "resolving" /\ requests[r].rounds = 1
    /\ Len(agents) = 2
    /\ AgentOf(2).tools[2] = Interpreters[1]
    /\ AgentOf(1).tools[2] = Interpreters[1]

\* C39: whatever the interleaving of the first requests, the code interpreter is
\* created at most once (no two creations are under way together, and the tool
\* stored is the one every agent holds), and every request builds its agent from
\* the same tool objects.
C39_ToolsInitializedOnce ==
    /\ Cardinality({r \in Requests : requests[r].pc = "creating"}) <= 1
    /\ \A r \in Requests : HasAgent(r) =>
          AgentOf(r).tools[2] = application.python_code_interpreter_tool
    /\ \A r, q \in Requests :
          (HasAgent(r) /\ HasAgent(q)) => AgentOf(r).tools = AgentOf(q).tools

\* C38: a mirror that was closed because its source was reported completed is
\* not written again by a later chunk of the stream, also when later snapshots
\* repeat the completed stage.
C38_ClosedMirrorNotWritten ==
    [][\A idx \in DOMAIN stages_map :
          Mirror(idx).status = "closed" =>
              stages'[stages_map[idx]].content = Mirror(idx).content]_vars

\* the namespaced sub-state map: the state without the agent's own history
SubStateMap(st) == [key \in DOMAIN st \ {TOOL_CALL_HISTORY_KEY} |-> st[key]]
\* task i ends in this step
TaskEnds(i) == tasks[i].pc = "awaiting" /\ tasks'[i].pc \in {"returned", "raised"}

\* C37: the sub-state map changes only in the step in which a call returns a
\* result that carries a non-empty tool-call history, and then only by a new key
\* for that capability. A call that fails, or whose result carries no history,
\* leaves the map as it was, and an entry once made is never modified.
C37_SubStateMapFrame ==
    /\ [][\A i \in 1..Len(tasks) :
            (pc = "fanout" /\ TaskEnds(i)
               /\ (tasks'[i].pc = "raised" \/ tasks'[i].result.state = <<>>)) =>
                  SubStateMap(state') = SubStateMap(state)]_vars
    /\ [][\A key \in DOMAIN SubStateMap(state) :
            key \in DOMAIN state' /\ state'[key] = state[key]]_vars
    /\ [][SubStateMap(state') # SubStateMap(state) =>
            \E i \in 1..Len(tasks) :
                /\ pc = "fanout" /\ TaskEnds(i)
                /\ tasks'[i].pc = "returned"
                /\ tasks'[i].result.state # <<>>
                /\ tasks'[i].result.name \notin DOMAIN state
                /\ state' = state @@ (tasks'[i].result.name :>
                              [tool_call_history |-> tasks'[i].result.state])]_vars

\* in the second round a call of an agent that has an entry returned a result
\* without history
C37_Witness ==
    /\ pc = "fanout"
    /\ round = 2
    /\ DOMAIN SubStateMap(state) # {}
    /\ \E i \in 1..Len(tasks) :
         /\ tasks[i].pc = "returned"
         /\ tasks[i].result.state = <<>>
         /\ tasks[i].result.name \in DOMAIN state


\* C35: whatever the flags of a tool's stage_config, the policy never turns a tool
\* call into an error: no call of a registered tool ends on an exception raised
\* by the statements that show the request (base_agent.py 192-196) when the tool
\* has show_request_in_stage set and create_stage unset, and a call shows its
\* request and its response in a Stage only when a Stage was created for it.
C35_PolicyNeverFailsCall ==
    pc = "fanout" =>
        \A i \in 1..Len(tasks) :
            LET tc == tool_call_index_map[i]
            IN  (/\ tc.name \in tools_dict
                 /\ stage_config[tc.name].show_request_in_stage
                 /\ ~stage_config[tc.name].create_stage)
                    => ~(/\ tasks[i].pc = "raised"
                         /\ tasks[i].at = "show_request"
                         /\ tasks[i].exc = NoneTypeErrorText)


\* the exceptions that end a request in the except clause of handle_request
FatalErrors ==
    {"KeyError", "ValueError: No tools available for the agent",
     "ValueError: All tools are None or invalid"}

\* C36: whatever the number of rounds, the choice takes the state at most once.
\* On normal return choice.set_state is called exactly once, by the round that
\* yields no tool call, with the state that holds every completed round.  On a
\* fatal error it is called by the except clause of every frame on the stack (one
\* per round), the first call alone takes effect, and the caller receives the
\* error that was raised, not the one of a repeated choice.set_state.
C36_StateSetOnce ==
    [][/\ choice_state # <<>> => choice_state' = choice_state
       /\ pc' # pc /\ pc' = "done" =>
            /\ choice_state = <<>>
            /\ choice_state' = <<state'>>
            /\ set_state_calls' = 1
            /\ Cardinality(AssistantTurns(state'[TOOL_CALL_HISTORY_KEY])) = round' - 1
       /\ pc' # pc /\ pc' = "failed" =>
            /\ choice_state = <<>>
            /\ choice_state' = <<state'>>
            /\ set_state_calls' = (IF round' = 0 THEN 1 ELSE round')
            /\ error' \in FatalErrors
       /\ pc \in {"done", "failed"} =>
            /\ error' = error
            /\ set_state_calls' = set_state_calls]_vars

\* an error raised in the second round has unwound both frames: the state set on
\* the choice holds the first round, and choice.set_state was called twice
C36_Witness ==
    /\ pc = "failed"
    /\ round = 2
    /\ set_state_calls = 2
    /\ error = "KeyError"
    /\ choice_state = <<state>>
    /\ Len(History) >= 2


\* the arguments text of call i of the round does not parse
Unparsable(i) == ~json_loads_ok(assistant_message.tool_calls[i].arguments)
\* the turn appended for call i reports an error
IsErrorTurn(m) ==
    /\ m.role = "tool"
    /\ m.content # <<>>
    /\ m.content[1] \in {"Error: ", "ERROR during tool call execution"}

\* C32: a tool call whose arguments text does not parse is reported as an error
\* of that call only: the round is not aborted and nothing is raised to the
\* caller, the call's result turn is an error turn with the call's id, a sibling
\* call that returned keeps its own result turn, and the model is invoked for the
\* next round.
C32_UnparsableArgumentsBecomeErrorTurn ==
    /\ [][JoinStep =>
            \A i \in 1..Len(tasks) :
                Unparsable(i) =>
                    /\ pc' = "stream" /\ error' = "none"
                    /\ Len(model_calls') = Len(model_calls) + 1
                    /\ IsErrorTurn(AppendedResult(i))
                    /\ AppendedResult(i).tool_call_id =
                           assistant_message.tool_calls[i].id
                    /\ \A j \in 1..Len(tasks) :
                         tasks[j].pc = "returned" =>
                             AppendedResult(j) = tasks[j].result]_vars
    /\ [][\A i \in 1..Len(tasks) :
            (pc = "fanout" /\ Unparsable(i)) => pc' \in {"fanout", "stream"}]_vars

\* a round of two calls joined: the first, whose arguments do not parse, is an
\* error turn, and the second, whose arguments parse, is a success result
C32_Witness ==
    /\ RoundJoined
    /\ Len(JoinedCalls) = 2
    /\ ~json_loads_ok(JoinedCalls[1].arguments)
    /\ json_loads_ok(JoinedCalls[2].arguments)
    /\ IsErrorTurn(JoinedResult(1))
    /\ ~IsErrorTurn(JoinedResult(2))


\* C31: every attachment the callee emits during a call of the proxy is added to
\* the caller's choice and to the attachments of the tool message, once for each
\* emission and in the order of emission: the tool message holds exactly the
\* emitted attachments, the choice holds them after those it held before the
\* call, and a step adds to both what it adds to the emitted ones, and removes
\* nothing.
C31_AttachmentsPropagated ==
    /\ [](custom_content.attachments = emitted)
    /\ [](IsSuffix(emitted, choice_attachments))
    /\ [](epc = "returned" => ReturnedMessage.custom_content.attachments = emitted)
    /\ [][LET added == SubSeq(emitted', Len(emitted) + 1, Len(emitted'))
          IN  /\ IsPrefix(emitted, emitted')
              /\ choice_attachments' = choice_attachments \o added
              /\ custom_content'.attachments = custom_content.attachments \o added]_vars

\* the call returned after the callee emitted one attachment and then two, one of
\* them for the second time, to a choice that held an attachment before
C31_Witness ==
    /\ epc = "returned"
    /\ emitted = <<"chart.png", "report.csv", "chart.png">>
    /\ choice_attachments = <<EarlierAttachment>> \o emitted
    /\ ReturnedMessage.custom_content.attachments = emitted


\* ------------------------------------ the registry of WebSearchApplication
\* tools the MCP server may list
MaxMcpTools == 3
\* names an MCP server may give its tools: two of its own, and one that is also
\* the name of a proxy
McpToolNames == {"search", "fetch_content", "calculations_agent"}
\* the proxies WebSearchApplication.__init__ creates
WebSearchProxies == <<"calculations_agent", "content_management_agent">>

\* tool objects, told apart by their position in the tools list
Tool(name, k) == [name |-> name, position |-> k]

\* tools = [*self.mcp_tools, self.calculations_agent_tool,
\*          self.content_management_agent_tool]
WebSearchTools(mcp_names) ==
    LET names == mcp_names \o WebSearchProxies
    IN  [k \in 1..Len(names) |-> Tool(names[k], k)]

\* {tool.name: tool for tool in tools}: a later tool replaces an earlier one of
\* the same name
ToolsDict(tool_list) ==
    LET names == {tool_list[k].name : k \in 1..Len(tool_list)}
    IN  [n \in names |->
            tool_list[CHOOSE k \in 1..Len(tool_list) :
                        /\ tool_list[k].name = n
                        /\ \A j \in (k + 1)..Len(tool_list) : tool_list[j].name # n]]

\* tool_schemas = [tool.schema for tool in valid_tools]: one per tool of the list
ToolSchemas(tool_list) == [k \in 1..Len(tool_list) |-> tool_list[k].name]

RegistryInit ==
    /\ AgentInit
    /\ agent_tools = RegisteredTools
    /\ stage_config = [t \in tools |-> Policy(TRUE, TRUE, TRUE)]
    /\ stages = <<>>
    /\ PropagatorIdle
    /\ MirrorIdle
    /\ SiblingIdle
    /\ ApplicationIdle
    /\ AttachmentsIdle
    /\ registry = [NoRegistry EXCEPT !.pc = "initializing"]
    /\ chain = <<>>

\* _initialize_tools and the tools list of chat_completion: the MCP server lists
\* its tools, and the proxies follow them
ListTools ==
    /\ registry.pc = "initializing"
    /\ \E n \in 0..MaxMcpTools :
         \E mcp_names \in [1..n -> McpToolNames] :
            registry' = [registry EXCEPT !.pc = "listed",
                                         !.tools = WebSearchTools(mcp_names)]
    /\ UNCHANGED <<chain, stages, agent_vars, propagator_vars, mirror_vars,
                   sibling_vars, application_vars, attachment_vars>>

\* agent = WebSearchAgent(tools=tools): BaseAgent.__init__ builds _tools_dict
BuildToolsDict ==
    /\ registry.pc = "listed"
    /\ registry' = [registry EXCEPT !.pc = "constructed",
                                    !.tools_dict = ToolsDict(registry.tools)]
    /\ UNCHANGED <<chain, stages, agent_vars, propagator_vars, mirror_vars,
                   sibling_vars, application_vars, attachment_vars>>

\* handle_request sends the model one schema per tool of the list
SendSchemas ==
    /\ registry.pc = "constructed"
    /\ registry' = [registry EXCEPT !.pc = "sent",
                                    !.tool_schemas = ToolSchemas(registry.tools)]
    /\ UNCHANGED <<chain, stages, agent_vars, propagator_vars, mirror_vars,
                   sibling_vars, application_vars, attachment_vars>>

\* the model calls the capability of the k-th schema it saw, by its name, and
\* _process_tool_call looks the name up: tool = self._tools_dict[tool_name]
Dispatch(k) ==
    /\ registry.pc = "sent"
    /\ k \in 1..Len(registry.tool_schemas)
    /\ registry' = [registry EXCEPT
          !.pc = "dispatched",
          !.called = k,
          !.dispatched = registry.tools_dict[registry.tool_schemas[k]].position]
    /\ UNCHANGED <<chain, stages, agent_vars, propagator_vars, mirror_vars,
                   sibling_vars, application_vars, attachment_vars>>

RegistryNext ==
    \/ ListTools
    \/ BuildToolsDict
    \/ SendSchemas
    \/ \E k \in 1..(MaxMcpTools + Len(WebSearchProxies)) : Dispatch(k)

RegistrySpec == RegistryInit /\ [][RegistryNext]_vars

\* C33: the capability names of a registry are unique: _tools_dict has one entry
\* for each tool of the list, every schema name sent to the model is the name of
\* one tool only, and a tool call by the name of a schema is dispatched to the
\* tool whose schema it is.
C33_CapabilityNamesUnique ==
    /\ registry.pc \in {"constructed", "sent", "dispatched"} =>
          Cardinality(DOMAIN registry.tools_dict) = Len(registry.tools)
    /\ registry.pc \in {"sent", "dispatched"} =>
          \A j, k \in 1..Len(registry.tool_schemas) :
              registry.tool_schemas[j] = registry.tool_schemas[k] => j = k
    /\ registry.pc = "dispatched" => registry.dispatched = registry.called


\* -------------------------------------- delegation between the three agents
\* frames of a delegation chain explored
MaxDepth == 6

\* the deployments
Agents == {"calculations-agent", "content-management-agent", "web-search-agent"}

\* deployment_name of the proxies each application registers: the two others
Proxies(agent) ==
    CASE agent = "calculations-agent" ->
            {"content-management-agent", "web-search-agent"}
      [] agent = "content-management-agent" ->
            {"calculations-agent", "web-search-agent"}
      [] agent = "web-search-agent" ->
            {"calculations-agent", "content-management-agent"}

\* (mutation) a callee that is already in the chain refuses the call
AcceptsUnvisited(callers, callee) ==
    \A k \in 1..Len(callers) : callers[k].agent # callee

\* What the callee checks of the chain that leads to it: the request of the proxy
\* carries the messages and the x-conversation-id header, and chat_completion
\* serves whatever request it receives.
Accepts(callers, callee) == TRUE

DelegationInit ==
    /\ AgentInit
    /\ agent_tools = RegisteredTools
    /\ stage_config = [t \in tools |-> Policy(TRUE, TRUE, TRUE)]
    /\ stages = <<>>
    /\ PropagatorIdle
    /\ MirrorIdle
    /\ SiblingIdle
    /\ ApplicationIdle
    /\ AttachmentsIdle
    /\ MeshIdle

\* a frame of the chain: the agent serving a request, and whether a call it
\* delegated has returned to it
Frame(agent) == [agent |-> agent, resumed |-> FALSE]

\* the user's request reaches one of the deployments
ReceiveRequest(agent) ==
    /\ chain = <<>>
    /\ chain' = <<Frame(agent)>>
    /\ UNCHANGED <<registry, stages, agent_vars, propagator_vars, mirror_vars,
                   sibling_vars, application_vars, attachment_vars>>

\* the innermost agent's model calls the proxy of another agent: _execute sends
\* the request to the callee's deployment, whose chat_completion serves it
Delegate(callee) ==
    /\ chain # <<>>
    /\ Len(chain) < MaxDepth
    /\ callee \in Proxies(chain[Len(chain)].agent)
    /\ Accepts(chain, callee)
    /\ chain' = Append(chain, Frame(callee))
    /\ UNCHANGED <<registry, stages, agent_vars, propagator_vars, mirror_vars,
                   sibling_vars, application_vars, attachment_vars>>

\* the innermost agent's stream ends and its caller's _execute returns: the
\* caller goes on, and may delegate again
DelegateReturns ==
    /\ chain # <<>>
    /\ chain' = [k \in 1..(Len(chain) - 1) |->
                    IF k = Len(chain) - 1 THEN [chain[k] EXCEPT !.resumed = TRUE]
                    ELSE chain[k]]
    /\ UNCHANGED <<registry, stages, agent_vars, propagator_vars, mirror_vars,
                   sibling_vars, application_vars, attachment_vars>>

DelegationNext ==
    \/ \E agent \in Agents : ReceiveRequest(agent)
    \/ \E callee \in Agents : Delegate(callee)
    \/ DelegateReturns

DelegationSpec == DelegationInit /\ [][DelegationNext]_vars

\* C34: nothing guards the depth of a delegation.  Each agent has a proxy for the
\* two others and none for itself, so a chain never calls an agent from itself;
\* and wherever a chain stands below the depth explored, the innermost agent can
\* call each of its two proxies, whether or not the callee is already in the
\* chain: no call is refused for its depth or for a callee already visited.
C34_NoDelegationDepthGuard ==
    /\ \A k \in 1..(Len(chain) - 1) :
          /\ chain[k + 1].agent \in Proxies(chain[k].agent)
          /\ chain[k + 1].agent # chain[k].agent
    /\ \A agent \in Agents : agent \notin Proxies(agent) /\ Cardinality(Proxies(agent)) = 2
    /\ (chain # <<>> /\ Len(chain) < MaxDepth) =>
          \A callee \in Proxies(chain[Len(chain)].agent) : ENABLED Delegate(callee)

\* calculations-agent and web-search-agent call each other down to the depth
\* explored
C34_Witness ==
    /\ Len(chain) = MaxDepth
    /\ \A k \in 1..Len(chain) :
          chain[k].agent = IF k % 2 = 1 THEN "calculations-agent"
                           ELSE "web-search-agent"

=============================================================================
